---------------------------- MODULE Spec2Model ----------------------------
(***************************************************************************)
(* A model of the Proteus validation-and-pipeline core: the PayloadTemplate *)
(* record model (core/models.py), the module registry (core/registry.py),   *)
(* the built-in generators (modules/*.py), the text transforms              *)
(* (transforms/*.py), the pipeline (core/pipeline.py) and the exporters     *)
(* (exporters/*.py) with their atomic write.                               *)
(*                                                                         *)
(* Python str values are sequences of one-character strings, so that       *)
(* strip(), lower(), the encoders and the obfuscation guard are computed,  *)
(* not assumed.  None and a non-str value are two distinguished tokens.    *)
(***************************************************************************)
EXTENDS Integers, Sequences, FiniteSets, TLC

VARIABLES
    registry,   \* ModuleRegistry._registry of the global instance: name -> ModuleSpec
    heap,       \* the Python list objects reachable by the caller (list id -> content)
    held,       \* the records the caller currently holds (the last value returned)
    outcome,    \* how the last call ended: returned, or raised (with the exception)
    run,        \* the activation record of PayloadPipeline.run in progress
    files,      \* the file system and the open descriptors of the process
    write,      \* the activation record of _atomic_write_text in progress
    conc,       \* the activations of run invocations running in threads of the process
    ncalls      \* how many calls the caller has made since it last dropped its values,
                \* not counting the construction of a record of its own

vars == <<registry, heap, held, outcome, run, files, write, conc, ncalls>>

(***************************************************************************)
(* Python values                                                           *)
(***************************************************************************)

\* Python's None, where a str is expected.
None ==
    <<"<None>">>

\* Some value that is not a str and not None (an int, say), where a str is expected.
NonStr ==
    <<"<int>">>

IsStr(v) ==
    v # None /\ v # NonStr

\* Python truthiness of an Optional[str]: None and "" are falsy.
Truthy(v) ==
    v # None /\ v # <<>>
\* The printable ASCII characters, in code order from 32 (space) to 126 (~); the backtick,
\* which a TLA+ string cannot hold, is the token "<backtick>".

Ascii ==
    <<" ","!","\"","#","$","%","&","'","(",")","*","+",",","-",".","/","0","1","2","3","4","5",
      "6","7","8","9",":",";","<","=",">","?","@","A","B","C","D","E","F","G","H","I","J","K",
      "L","M","N","O","P","Q","R","S","T","U","V","W","X","Y","Z","[","\\","]","^","_","<backtick>","a",
      "b","c","d","e","f","g","h","i","j","k","l","m","n","o","p","q","r","s","t","u","v","w",
      "x","y","z","{","|","}","~">>

UpperChars ==
    <<"A","B","C","D","E","F","G","H","I","J","K","L","M","N","O","P","Q","R","S","T","U","V",
      "W","X","Y","Z">>

LowerChars ==
    <<"a","b","c","d","e","f","g","h","i","j","k","l","m","n","o","p","q","r","s","t","u","v",
      "w","x","y","z">>

DigitChars ==
    <<"0","1","2","3","4","5","6","7","8","9">>

HexDigitsLower ==
    <<"0","1","2","3","4","5","6","7","8","9","a","b","c","d","e","f">>

HexDigitsUpper ==
    <<"0","1","2","3","4","5","6","7","8","9","A","B","C","D","E","F">>

Base64Alphabet ==
    <<"A","B","C","D","E","F","G","H","I","J","K","L","M","N","O","P","Q","R","S","T","U","V",
      "W","X","Y","Z","a","b","c","d","e","f","g","h","i","j","k","l","m","n","o","p","q","r",
      "s","t","u","v","w","x","y","z","0","1","2","3","4","5","6","7","8","9","+","/">>
(***************************************************************************)
(* String literals of the code                                             *)
(***************************************************************************)

\* "xss"
s_xss ==
    <<"x","s","s">>

\* "sqli"
s_sqli ==
    <<"s","q","l","i">>

\* "cmd"
s_cmd ==
    <<"c","m","d">>

\* "low"
s_low ==
    <<"l","o","w">>

\* "medium"
s_medium ==
    <<"m","e","d","i","u","m">>

\* "high"
s_high ==
    <<"h","i","g","h">>

\* "mysql"
s_mysql ==
    <<"m","y","s","q","l">>

\* "postgres"
s_postgres ==
    <<"p","o","s","t","g","r","e","s">>

\* "mssql"
s_mssql ==
    <<"m","s","s","q","l">>

\* "linux"
s_linux ==
    <<"l","i","n","u","x">>

\* "windows"
s_windows ==
    <<"w","i","n","d","o","w","s">>

\* "html"
s_html ==
    <<"h","t","m","l">>

\* "attr"
s_attr ==
    <<"a","t","t","r">>

\* "js"
s_js ==
    <<"j","s">>

\* "url"
s_url ==
    <<"u","r","l">>

\* "base64"
s_base64 ==
    <<"b","a","s","e","6","4">>

\* "hex"
s_hex ==
    <<"h","e","x">>

\* "comments"
s_comments ==
    <<"c","o","m","m","e","n","t","s">>

\* "whitespace"
s_whitespace ==
    <<"w","h","i","t","e","s","p","a","c","e">>

\* "mixed"
s_mixed ==
    <<"m","i","x","e","d">>

\* "json"
s_json ==
    <<"j","s","o","n">>

\* "txt"
s_txt ==
    <<"t","x","t">>

\* "template"
s_template ==
    <<"t","e","m","p","l","a","t","e">>

\* "/*OBF*/"
s_obf_marker ==
    <<"/","*","O","B","F","*","/">>

\* " \\t "
s_space_tab_space ==
    <<" ","\t"," ">>
\* "mariadb"
s_mariadb ==
    <<"m","a","r","i","a","d","b">>

\* "postgresql"
s_postgresql ==
    <<"p","o","s","t","g","r","e","s","q","l">>

\* "sqlserver"
s_sqlserver ==
    <<"s","q","l","s","e","r","v","e","r">>

\* "sql server"
s_sql_server ==
    <<"s","q","l"," ","s","e","r","v","e","r">>

\* "unix"
s_unix ==
    <<"u","n","i","x">>

\* "gnu/linux"
s_gnu_linux ==
    <<"g","n","u","/","l","i","n","u","x">>

\* "bash"
s_bash ==
    <<"b","a","s","h">>

\* "sh"
s_sh ==
    <<"s","h">>

\* "win"
s_win ==
    <<"w","i","n">>

\* "win32"
s_win32 ==
    <<"w","i","n","3","2">>

\* "powershell"
s_powershell ==
    <<"p","o","w","e","r","s","h","e","l","l">>

\* "pwsh"
s_pwsh ==
    <<"p","w","s","h">>

\* "<<SQLI_TEMPLATE: "
s_sqli_marker_open ==
    <<"<","<","S","Q","L","I","_","T","E","M","P","L","A","T","E",":"," ">>

\* "<<CMD_TEMPLATE: "
s_cmd_marker_open ==
    <<"<","<","C","M","D","_","T","E","M","P","L","A","T","E",":"," ">>

\* " | DB="
s_marker_db ==
    <<" ","|"," ","D","B","=">>

\* " | OS="
s_marker_os ==
    <<" ","|"," ","O","S","=">>

\* " | NON_EXECUTING>>"
s_marker_close ==
    <<" ","|"," ","N","O","N","_","E","X","E","C","U","T","I","N","G",">",">">>

\* " ("
s_title_open ==
    <<" ","(">>

\* ") - Template"
s_title_close ==
    <<")"," ","-"," ","T","e","m","p","l","a","t","e">>

\* "db:"
s_db_tag ==
    <<"d","b",":">>

\* "os:"
s_os_tag ==
    <<"o","s",":">>

(***************************************************************************)
(* str operations used by the code                                         *)
(***************************************************************************)

InSeq(c, table) ==
    \E i \in 1..Len(table) : table[i] = c

IndexOf(c, table) ==
    CHOOSE i \in 1..Len(table) : table[i] = c

\* ord(c) for the characters of the model's alphabet.
Ord(c) ==
    IF c = "\t" THEN 9
    ELSE IF c = "\n" THEN 10
    ELSE IF c = "\r" THEN 13
    ELSE 31 + IndexOf(c, Ascii)

\* str.isspace() for one character.
IsSpace(c) ==
    c \in {" ", "\t", "\n", "\r"}

\* str.isalnum() for one character.
IsAlnum(c) ==
    InSeq(c, UpperChars) \/ InSeq(c, LowerChars) \/ InSeq(c, DigitChars)

\* A regular-expression word character (\w).
IsWordChar(c) ==
    IsAlnum(c) \/ c = "_"

RECURSIVE LStrip(_)
LStrip(s) ==
    IF s # <<>> /\ IsSpace(Head(s)) THEN LStrip(Tail(s)) ELSE s

RECURSIVE RStrip(_)
RStrip(s) ==
    IF s # <<>> /\ IsSpace(s[Len(s)]) THEN RStrip(SubSeq(s, 1, Len(s) - 1)) ELSE s

\* str.strip()
Strip(s) ==
    RStrip(LStrip(s))

LowerChar(c) ==
    IF InSeq(c, UpperChars) THEN LowerChars[IndexOf(c, UpperChars)] ELSE c

\* str.lower()
Lower(s) ==
    [i \in 1..Len(s) |-> LowerChar(s[i])]

\* The concatenation, in order, of f(s[i]) for every character of s (the loop and
\* "".join of the code), computed by halving.
RECURSIVE ConcatMap(_, _)
ConcatMap(f(_), s) ==
    IF Len(s) = 0 THEN <<>>
    ELSE IF Len(s) = 1 THEN f(s[1])
    ELSE LET half == Len(s) \div 2
         IN  ConcatMap(f, SubSeq(s, 1, half)) \o ConcatMap(f, SubSeq(s, half + 1, Len(s)))

(***************************************************************************)
(* transforms/encoder.py                                                   *)
(***************************************************************************)

UrlQuoteChar(c) ==
    IF IsAlnum(c) \/ c \in {"_", ".", "-", "~"}
    THEN <<c>>
    ELSE <<"%", HexDigitsUpper[(Ord(c) \div 16) + 1], HexDigitsUpper[(Ord(c) % 16) + 1]>>

\* urllib.parse.quote(payload, safe="")
url_encode(payload) ==
    ConcatMap(UrlQuoteChar, payload)

HexChar(c) ==
    <<HexDigitsLower[(Ord(c) \div 16) + 1], HexDigitsLower[(Ord(c) % 16) + 1]>>

\* binascii.hexlify(payload.encode("utf-8")).decode("ascii")
hex_encode(payload) ==
    ConcatMap(HexChar, payload)

B64(n) ==
    Base64Alphabet[n + 1]

RECURSIVE Base64Bytes(_)
Base64Bytes(bs) ==
    IF Len(bs) = 0 THEN <<>>
    ELSE IF Len(bs) = 1 THEN
        <<B64(bs[1] \div 4), B64((bs[1] % 4) * 16), "=", "=">>
    ELSE IF Len(bs) = 2 THEN
        <<B64(bs[1] \div 4),
          B64((bs[1] % 4) * 16 + bs[2] \div 16),
          B64((bs[2] % 16) * 4),
          "=">>
    ELSE
        <<B64(bs[1] \div 4),
          B64((bs[1] % 4) * 16 + bs[2] \div 16),
          B64((bs[2] % 16) * 4 + bs[3] \div 64),
          B64(bs[3] % 64)>>
        \o Base64Bytes(SubSeq(bs, 4, Len(bs)))

\* base64.b64encode(payload.encode("utf-8")).decode("ascii")
base64_encode(payload) ==
    Base64Bytes([i \in 1..Len(payload) |-> Ord(payload[i])])

(***************************************************************************)
(* Exceptions and the result of a call                                     *)
(***************************************************************************)

\* No exception (the value of __cause__ when there is none).
NoExc ==
    [type |-> "none"]

\* An exception of class type whose message is the text msg; args are the
\* values interpolated into the message, by name.
Exc(type, msg, args) ==
    [type |-> type, msg |-> msg, args |-> args, cause |-> NoExc]

\* raise ... from cause
ExcFrom(type, msg, args, cause) ==
    [type |-> type, msg |-> msg, args |-> args, cause |-> cause]

NoArgs ==
    [none |-> TRUE]

\* A call that returned value.
Returned(value) ==
    [raised |-> FALSE, value |-> value, exc |-> NoExc]

\* A call that raised exc.
Raised(exc) ==
    [raised |-> TRUE, exc |-> exc]

(***************************************************************************)
(* transforms/encoder.py: the public API                                   *)
(***************************************************************************)

ENCODING_METHODS ==
    {s_url, s_base64, s_hex}

encoder(method_norm, payload) ==
    IF method_norm = s_url THEN url_encode(payload)
    ELSE IF method_norm = s_base64 THEN base64_encode(payload)
    ELSE hex_encode(payload)

encode_payload(payload, method) ==
    LET method_norm == Lower(Strip(IF Truthy(method) THEN method ELSE <<>>))
    IN  IF ~IsStr(payload) THEN
            Raised(Exc("EncodingError", "Payload must be a string, got {type(payload)}.",
                       NoArgs))
        ELSE IF Strip(payload) = <<>> THEN
            Raised(Exc("EncodingError", "Payload cannot be empty.", NoArgs))
        ELSE IF method_norm \notin ENCODING_METHODS THEN
            Raised(Exc("EncodingError", "Unsupported encoding method '{method}'.",
                       [method |-> method]))
        ELSE Returned(encoder(method_norm, payload))

(***************************************************************************)
(* transforms/obfuscator.py                                                *)
(***************************************************************************)

\* re.search(r"<<.*?>>", payload): "<<", then any characters but a newline, then ">>".
HasBracketMarker(payload) ==
    \E i \in 1..Len(payload), j \in 1..Len(payload) :
        /\ i + 1 <= Len(payload) /\ j + 1 <= Len(payload)
        /\ payload[i] = "<" /\ payload[i + 1] = "<"
        /\ j >= i + 2
        /\ payload[j] = ">" /\ payload[j + 1] = ">"
        /\ \A k \in (i + 2)..(j - 1) : payload[k] # "\n"

\* re.search(r"\bTEMPLATE\b", payload, re.IGNORECASE)
HasTemplateWord(payload) ==
    \E i \in 1..Len(payload) :
        /\ i + Len(s_template) - 1 <= Len(payload)
        /\ Lower(SubSeq(payload, i, i + Len(s_template) - 1)) = s_template
        /\ (i = 1 \/ ~IsWordChar(payload[i - 1]))
        /\ (i + Len(s_template) > Len(payload) \/ ~IsWordChar(payload[i + Len(s_template)]))

\* _TEMPLATE_MARKER_RE.search(payload or "")
TEMPLATE_MARKER_RE_search(payload) ==
    HasBracketMarker(payload) \/ HasTemplateWord(payload)

GuardError ==
    Exc("ObfuscationError",
        "Refusing to obfuscate: payload does not look like an educational template.",
        NoArgs)

\* _ensure_educational_template: TRUE when it returns, FALSE when it raises GuardError.
ensure_educational_template(payload) ==
    TEMPLATE_MARKER_RE_search(payload)

CommentsChar(ch) ==
    IF IsAlnum(ch) /\ Ord(ch) % 7 = 0 THEN <<ch>> \o s_obf_marker ELSE <<ch>>

comments(payload) ==
    IF ~ensure_educational_template(payload) THEN Raised(GuardError)
    ELSE Returned(ConcatMap(CommentsChar, payload))

WhitespaceChar(ch) ==
    IF ch = " " THEN s_space_tab_space ELSE <<ch>>

whitespace(payload) ==
    IF ~ensure_educational_template(payload) THEN Raised(GuardError)
    ELSE Returned(ConcatMap(WhitespaceChar, payload))

mixed(payload) ==
    IF ~ensure_educational_template(payload) THEN Raised(GuardError)
    ELSE LET c == comments(payload)
         IN  IF c.raised THEN c ELSE whitespace(c.value)

OBFUSCATION_MODES ==
    {s_comments, s_whitespace, s_mixed}

transformer(mode_norm, payload) ==
    IF mode_norm = s_comments THEN comments(payload)
    ELSE IF mode_norm = s_whitespace THEN whitespace(payload)
    ELSE mixed(payload)

obfuscate_payload(payload, mode) ==
    LET mode_norm == Lower(Strip(IF Truthy(mode) THEN mode ELSE <<>>))
    IN  IF ~IsStr(payload) THEN
            Raised(Exc("ObfuscationError", "Payload must be a string, got {type(payload)}.",
                       NoArgs))
        ELSE IF payload = <<>> THEN
            Raised(Exc("ObfuscationError", "Payload cannot be empty.", NoArgs))
        ELSE IF mode_norm \notin OBFUSCATION_MODES THEN
            Raised(Exc("ObfuscationError", "Unsupported obfuscation mode '{mode}'.",
                       [mode |-> mode]))
        ELSE transformer(mode_norm, payload)

(***************************************************************************)
(* core/models.py: constants                                               *)
(***************************************************************************)

VALID_MODULES ==
    {s_xss, s_sqli, s_cmd}

VALID_RISK_LEVELS ==
    {s_low, s_medium, s_high}

VALID_DB_TYPES ==
    {s_mysql, s_postgres, s_mssql}

VALID_OS_TYPES ==
    {s_linux, s_windows}

VALID_XSS_CONTEXTS ==
    {s_html, s_attr, s_js}

(***************************************************************************)
(* core/models.py: PayloadTemplate                                         *)
(*                                                                         *)
(* An instance is a record of its fields.  The three list fields hold the  *)
(* identity of a list object, an index into the heap, because              *)
(* dataclasses.replace copies references: two instances may hold the same  *)
(* list.  tags = NotAList stands for a tags value that is no list.         *)
(* disabled_by_default is "True", "False" or "1" (a value that is truthy   *)
(* but is not the object True); created_at is "aware" or "naive".          *)
(***************************************************************************)

NotAList ==
    0

PayloadValidationError(msg, args) ==
    Exc("PayloadValidationError", msg, args)

\* A variant of the module-specific rules that omits "os_type must be None" for xss.
validate_selectors_xss_os_unchecked(self) ==
    IF self.module = s_xss THEN
        IF self.context \notin VALID_XSS_CONTEXTS THEN
            PayloadValidationError(
                "For module 'xss', context must be one of ['attr', 'html', 'js']", NoArgs)
        ELSE IF self.db_type # None THEN
            PayloadValidationError("db_type must be None for module 'xss'.", NoArgs)
        ELSE NoExc
    ELSE IF self.module = s_sqli THEN
        IF ~Truthy(self.db_type) THEN
            PayloadValidationError("db_type is required for module 'sqli'.", NoArgs)
        ELSE IF self.db_type \notin VALID_DB_TYPES THEN
            PayloadValidationError(
                "Invalid db_type '{self.db_type}'. Must be one of ['mssql', 'mysql', 'postgres']",
                [db_type |-> self.db_type])
        ELSE IF self.context # None THEN
            PayloadValidationError("context must be None for module 'sqli'.", NoArgs)
        ELSE IF self.os_type # None THEN
            PayloadValidationError("os_type must be None for module 'sqli'.", NoArgs)
        ELSE NoExc
    ELSE IF self.module = s_cmd THEN
        IF ~Truthy(self.os_type) THEN
            PayloadValidationError("os_type is required for module 'cmd'.", NoArgs)
        ELSE IF self.os_type \notin VALID_OS_TYPES THEN
            PayloadValidationError(
                "Invalid os_type '{self.os_type}'. Must be one of ['linux', 'windows']",
                [os_type |-> self.os_type])
        ELSE IF self.context # None THEN
            PayloadValidationError("context must be None for module 'cmd'.", NoArgs)
        ELSE IF self.db_type # None THEN
            PayloadValidationError("db_type must be None for module 'cmd'.", NoArgs)
        ELSE NoExc
    ELSE NoExc


\* The module-specific rules of _validate: NoExc when they hold.
validate_selectors_of_record(self) ==
    IF self.module = s_xss THEN
        IF self.context \notin VALID_XSS_CONTEXTS THEN
            PayloadValidationError(
                "For module 'xss', context must be one of ['attr', 'html', 'js']", NoArgs)
        ELSE IF self.db_type # None THEN
            PayloadValidationError("db_type must be None for module 'xss'.", NoArgs)
        ELSE IF self.os_type # None THEN
            PayloadValidationError("os_type must be None for module 'xss'.", NoArgs)
        ELSE NoExc
    ELSE IF self.module = s_sqli THEN
        IF ~Truthy(self.db_type) THEN
            PayloadValidationError("db_type is required for module 'sqli'.", NoArgs)
        ELSE IF self.db_type \notin VALID_DB_TYPES THEN
            PayloadValidationError(
                "Invalid db_type '{self.db_type}'. Must be one of ['mssql', 'mysql', 'postgres']",
                [db_type |-> self.db_type])
        ELSE IF self.context # None THEN
            PayloadValidationError("context must be None for module 'sqli'.", NoArgs)
        ELSE IF self.os_type # None THEN
            PayloadValidationError("os_type must be None for module 'sqli'.", NoArgs)
        ELSE NoExc
    ELSE IF self.module = s_cmd THEN
        IF ~Truthy(self.os_type) THEN
            PayloadValidationError("os_type is required for module 'cmd'.", NoArgs)
        ELSE IF self.os_type \notin VALID_OS_TYPES THEN
            PayloadValidationError(
                "Invalid os_type '{self.os_type}'. Must be one of ['linux', 'windows']",
                [os_type |-> self.os_type])
        ELSE IF self.context # None THEN
            PayloadValidationError("context must be None for module 'cmd'.", NoArgs)
        ELSE IF self.db_type # None THEN
            PayloadValidationError("db_type must be None for module 'cmd'.", NoArgs)
        ELSE NoExc
    ELSE NoExc

\* A variant of _validate that omits the disabled_by_default rule.
validate_ignoring_flag(self, h) ==
    IF self.module \notin VALID_MODULES THEN
        PayloadValidationError(
            "Invalid module '{self.module}'. Must be one of ['cmd', 'sqli', 'xss']",
            [module |-> self.module])
    ELSE IF ~IsStr(self.title) \/ Strip(self.title) = <<>> THEN
        PayloadValidationError("title cannot be empty.", NoArgs)
    ELSE IF ~IsStr(self.payload) \/ Strip(self.payload) = <<>> THEN
        PayloadValidationError("payload cannot be empty.", NoArgs)
    ELSE IF self.risk_level \notin VALID_RISK_LEVELS THEN
        PayloadValidationError(
            "Invalid risk_level '{self.risk_level}'. Must be one of ['high', 'low', 'medium']",
            [risk_level |-> self.risk_level])
    ELSE IF self.tags = NotAList THEN
        PayloadValidationError("tags must be a list of strings.", NoArgs)
    ELSE IF \E i \in 1..Len(h[self.tags]) : ~IsStr(h[self.tags][i]) THEN
        PayloadValidationError("each tag must be a string.", NoArgs)
    ELSE IF validate_selectors_of_record(self) # NoExc THEN
        validate_selectors_of_record(self)
    ELSE IF self.created_at = "naive" THEN
        PayloadValidationError("created_at must be timezone-aware (UTC).", NoArgs)
    ELSE NoExc


\* A variant of _validate that checks risk_level before title and payload.
validate_risk_first(self, h) ==
    IF self.module \notin VALID_MODULES THEN
        PayloadValidationError(
            "Invalid module '{self.module}'. Must be one of ['cmd', 'sqli', 'xss']",
            [module |-> self.module])
    ELSE IF self.risk_level \notin VALID_RISK_LEVELS THEN
        PayloadValidationError(
            "Invalid risk_level '{self.risk_level}'. Must be one of ['high', 'low', 'medium']",
            [risk_level |-> self.risk_level])
    ELSE IF ~IsStr(self.title) \/ Strip(self.title) = <<>> THEN
        PayloadValidationError("title cannot be empty.", NoArgs)
    ELSE IF ~IsStr(self.payload) \/ Strip(self.payload) = <<>> THEN
        PayloadValidationError("payload cannot be empty.", NoArgs)
    ELSE IF self.disabled_by_default # "True" THEN
        PayloadValidationError("disabled_by_default must remain True for safety.", NoArgs)
    ELSE IF self.tags = NotAList THEN
        PayloadValidationError("tags must be a list of strings.", NoArgs)
    ELSE IF \E i \in 1..Len(h[self.tags]) : ~IsStr(h[self.tags][i]) THEN
        PayloadValidationError("each tag must be a string.", NoArgs)
    ELSE IF validate_selectors_of_record(self) # NoExc THEN
        validate_selectors_of_record(self)
    ELSE IF self.created_at = "naive" THEN
        PayloadValidationError("created_at must be timezone-aware (UTC).", NoArgs)
    ELSE NoExc


\* PayloadTemplate._validate on the instance self, whose lists are in heap h:
\* NoExc when it returns, the exception when it raises.
validate(self, h) ==
    IF self.module \notin VALID_MODULES THEN
        PayloadValidationError(
            "Invalid module '{self.module}'. Must be one of ['cmd', 'sqli', 'xss']",
            [module |-> self.module])
    ELSE IF ~IsStr(self.title) \/ Strip(self.title) = <<>> THEN
        PayloadValidationError("title cannot be empty.", NoArgs)
    ELSE IF ~IsStr(self.payload) \/ Strip(self.payload) = <<>> THEN
        PayloadValidationError("payload cannot be empty.", NoArgs)
    ELSE IF self.risk_level \notin VALID_RISK_LEVELS THEN
        PayloadValidationError(
            "Invalid risk_level '{self.risk_level}'. Must be one of ['high', 'low', 'medium']",
            [risk_level |-> self.risk_level])
    ELSE IF self.disabled_by_default # "True" THEN
        PayloadValidationError("disabled_by_default must remain True for safety.", NoArgs)
    ELSE IF self.tags = NotAList THEN
        PayloadValidationError("tags must be a list of strings.", NoArgs)
    ELSE IF \E i \in 1..Len(h[self.tags]) : ~IsStr(h[self.tags][i]) THEN
        PayloadValidationError("each tag must be a string.", NoArgs)
    ELSE IF validate_selectors_of_record(self) # NoExc THEN
        validate_selectors_of_record(self)
    ELSE IF self.created_at = "naive" THEN
        PayloadValidationError("created_at must be timezone-aware (UTC).", NoArgs)
    ELSE NoExc

\* The dataclass-generated __init__ followed by __post_init__: the instance built
\* from the field values given, or the exception _validate raised.
post_init(self, h) ==
    IF validate(self, h) = NoExc THEN Returned(self) ELSE Raised(validate(self, h))

\* dataclasses.replace(self, **kwargs): a new instance whose fields are those of
\* self (list fields by reference) except the ones kwargs names, validated by
\* __post_init__.
clone_with_updates(self, kwargs, h) ==
    post_init([f \in DOMAIN self |-> IF f \in DOMAIN kwargs THEN kwargs[f] ELSE self[f]], h)

(***************************************************************************)
(* The heap of list objects                                                *)
(***************************************************************************)

\* The lists the instances of items refer to.
Refs(items) ==
    UNION {{items[i].encoding_applied, items[i].obfuscation_applied, items[i].tags} :
               i \in 1..Len(items)} \ {NotAList}

Rank(id, live) ==
    Cardinality({j \in live : j <= id})

\* The heap with only the lists of live kept, renumbered in allocation order: what
\* the caller can no longer reach is gone.
Collect(h, live) ==
    [k \in 1..Cardinality(live) |-> h[CHOOSE id \in live : Rank(id, live) = k]]

Renumber(ref, live) ==
    IF ref = NotAList THEN NotAList ELSE Rank(ref, live)

\* items with every list reference renumbered as Collect renumbers the heap.
Relocate(items, live) ==
    [i \in 1..Len(items) |->
        [items[i] EXCEPT !.encoding_applied = Renumber(@, live),
                         !.obfuscation_applied = Renumber(@, live),
                         !.tags = Renumber(@, live)]]

\* list.append(name) on the list object ref.
ListAppend(h, ref, name) ==
    [h EXCEPT ![ref] = Append(@, name)]

(***************************************************************************)
(* Construction of instances                                               *)
(***************************************************************************)

\* A tags argument that is no list (a tuple, say).
NonListValue ==
    << <<"<tuple>">> >>

\* A variant of the construction that hands every instance the three lists at
\* the start of the heap, as a generator keeping its records between calls does.
NewInstanceOnOldLists(fields, base) ==
    [cls |-> "PayloadTemplate",
     id |-> "uuid4",
     module |-> fields.module,
     title |-> fields.title,
     description |-> fields.description,
     payload |-> fields.payload,
     context |-> fields.context,
     db_type |-> fields.db_type,
     os_type |-> fields.os_type,
     encoding_applied |-> 1,
     obfuscation_applied |-> 2,
     tags |-> IF fields.tags = NonListValue THEN NotAList ELSE 3,
     defensive_notes |-> fields.defensive_notes,
     risk_level |-> fields.risk_level,
     disabled_by_default |-> fields.disabled_by_default,
     created_at |-> fields.created_at]

\* The instance PayloadTemplate(**fields) builds before __post_init__ runs, with
\* its three lists at heap positions base+1, base+2 and base+3: the id and the two
\* history lists come from the default factories.
NewInstance(fields, base) ==
    [cls |-> "PayloadTemplate",
     id |-> "uuid4",
     module |-> fields.module,
     title |-> fields.title,
     description |-> fields.description,
     payload |-> fields.payload,
     context |-> fields.context,
     db_type |-> fields.db_type,
     os_type |-> fields.os_type,
     encoding_applied |-> base + 1,
     obfuscation_applied |-> base + 2,
     tags |-> IF fields.tags = NonListValue THEN NotAList ELSE base + 3,
     defensive_notes |-> fields.defensive_notes,
     risk_level |-> fields.risk_level,
     disabled_by_default |-> fields.disabled_by_default,
     created_at |-> fields.created_at]

\* The three lists NewInstance(fields, base) refers to.
NewLists(fields) ==
    << <<>>, <<>>, IF fields.tags = NonListValue THEN <<>> ELSE fields.tags >>

\* The heap after every PayloadTemplate(**fieldsSeq[k]) call of a generator.
HeapAfter(fieldsSeq, h) ==
    [k \in 1..(Len(h) + 3 * Len(fieldsSeq)) |->
        IF k <= Len(h) THEN h[k]
        ELSE NewLists(fieldsSeq[((k - Len(h) - 1) \div 3) + 1])[((k - Len(h) - 1) % 3) + 1]]

\* The instances a generator builds, one PayloadTemplate(...) call per element of
\* fieldsSeq in order: the list of them, or the exception of the first call that
\* fails validation.
ConstructAll(fieldsSeq, h) ==
    LET h2 == HeapAfter(fieldsSeq, h)
        inst(k) == NewInstance(fieldsSeq[k], Len(h) + 3 * (k - 1))
        bad == {k \in 1..Len(fieldsSeq) : validate(inst(k), h2) # NoExc}
    IN  IF bad = {}
        THEN [res |-> Returned([k \in 1..Len(fieldsSeq) |-> inst(k)]), heap |-> h2]
        ELSE [res |-> Raised(validate(inst(CHOOSE k \in bad : \A j \in bad : k <= j), h2)),
              heap |-> h]

\* The fields a generator does not pass take the dataclass defaults.
DefaultFields ==
    [module |-> <<>>, title |-> <<>>, description |-> <<>>, payload |-> <<>>,
     context |-> None, db_type |-> None, os_type |-> None, tags |-> <<>>,
     defensive_notes |-> <<>>, risk_level |-> s_low, disabled_by_default |-> "True",
     created_at |-> "aware"]

WithDefaults(given) ==
    [f \in DOMAIN DefaultFields |-> IF f \in DOMAIN given THEN given[f] ELSE DefaultFields[f]]

\* The elements of s that satisfy keep, in order.
RECURSIVE SelectSeqBy(_, _)
SelectSeqBy(keep(_), s) ==
    IF s = <<>> THEN <<>>
    ELSE IF keep(Head(s)) THEN <<Head(s)>> \o SelectSeqBy(keep, Tail(s))
    ELSE SelectSeqBy(keep, Tail(s))

ValueError(msg, args) ==
    Exc("ValueError", msg, args)

(***************************************************************************)
(* modules/xss.py                                                          *)
(*                                                                         *)
(* description and defensive_notes are free text that no code inspects:    *)
(* each is a one-token string naming the text.                             *)
(***************************************************************************)

\* The PayloadTemplate(...) calls of generate_payloads, in the order of the code.
XSS_TEMPLATES ==
    <<
      [title |->
            <<"R","e","f","l","e","c","t","e","d"," ","X","S","S"," ","(","H","T","M","L"," ","c",
              "o","n","t","e","x","t",")"," ","-"," ","T","e","m","p","l","a","t","e">>,
       payload |->
            <<"<","<","X","S","S","_","T","E","M","P","L","A","T","E",":"," ","R","E","F","L","E",
              "C","T","E","D"," ","|"," ","C","O","N","T","E","X","T","=","h","t","m","l"," ","|",
              " ","S","I","N","K","=","H","T","M","L","_","B","O","D","Y",">",">">>,
       context |-> s_html,
       risk_level |-> s_medium,
       tags |-> <<<<"r","e","f","l","e","c","t","e","d">>,
                    <<"c","o","n","t","e","x","t",":","h","t","m","l">>,
                    <<"e","d","u","c","a","t","i","o","n","-","o","n","l","y">>,
                    <<"n","o","n","-","e","x","e","c","u","t","i","n","g">>>>,
       description |-> <<"xss description REFLECTED/html">>,
       defensive_notes |-> <<"xss defensive notes REFLECTED/html">>],
      [title |->
            <<"S","t","o","r","e","d"," ","X","S","S"," ","(","H","T","M","L"," ","c","o","n","t",
              "e","x","t",")"," ","-"," ","T","e","m","p","l","a","t","e">>,
       payload |->
            <<"<","<","X","S","S","_","T","E","M","P","L","A","T","E",":"," ","S","T","O","R","E",
              "D"," ","|"," ","C","O","N","T","E","X","T","=","h","t","m","l"," ","|"," ","S","O",
              "U","R","C","E","=","p","e","r","s","i","s","t","e","d","_","i","n","p","u","t"," ",
              "|"," ","S","I","N","K","=","H","T","M","L","_","B","O","D","Y",">",">">>,
       context |-> s_html,
       risk_level |-> s_high,
       tags |-> <<<<"s","t","o","r","e","d">>,
                    <<"c","o","n","t","e","x","t",":","h","t","m","l">>,
                    <<"e","d","u","c","a","t","i","o","n","-","o","n","l","y">>,
                    <<"n","o","n","-","e","x","e","c","u","t","i","n","g">>>>,
       description |-> <<"xss description STORED/html">>,
       defensive_notes |-> <<"xss defensive notes STORED/html">>],
      [title |->
            <<"R","e","f","l","e","c","t","e","d"," ","X","S","S"," ","(","A","t","t","r","i","b",
              "u","t","e"," ","c","o","n","t","e","x","t",")"," ","-"," ","T","e","m","p","l","a",
              "t","e">>,
       payload |->
            <<"<","<","X","S","S","_","T","E","M","P","L","A","T","E",":"," ","R","E","F","L","E",
              "C","T","E","D"," ","|"," ","C","O","N","T","E","X","T","=","a","t","t","r"," ","|",
              " ","S","I","N","K","=","A","T","T","R","I","B","U","T","E","_","V","A","L","U","E",
              ">",">">>,
       context |-> s_attr,
       risk_level |-> s_medium,
       tags |-> <<<<"r","e","f","l","e","c","t","e","d">>,
                    <<"c","o","n","t","e","x","t",":","a","t","t","r">>,
                    <<"e","d","u","c","a","t","i","o","n","-","o","n","l","y">>,
                    <<"n","o","n","-","e","x","e","c","u","t","i","n","g">>>>,
       description |-> <<"xss description REFLECTED/attr">>,
       defensive_notes |-> <<"xss defensive notes REFLECTED/attr">>],
      [title |->
            <<"S","t","o","r","e","d"," ","X","S","S"," ","(","A","t","t","r","i","b","u","t","e",
              " ","c","o","n","t","e","x","t",")"," ","-"," ","T","e","m","p","l","a","t","e">>,
       payload |->
            <<"<","<","X","S","S","_","T","E","M","P","L","A","T","E",":"," ","S","T","O","R","E",
              "D"," ","|"," ","C","O","N","T","E","X","T","=","a","t","t","r"," ","|"," ","S","O",
              "U","R","C","E","=","p","e","r","s","i","s","t","e","d","_","i","n","p","u","t"," ",
              "|"," ","S","I","N","K","=","A","T","T","R","I","B","U","T","E","_","V","A","L","U",
              "E",">",">">>,
       context |-> s_attr,
       risk_level |-> s_high,
       tags |-> <<<<"s","t","o","r","e","d">>,
                    <<"c","o","n","t","e","x","t",":","a","t","t","r">>,
                    <<"e","d","u","c","a","t","i","o","n","-","o","n","l","y">>,
                    <<"n","o","n","-","e","x","e","c","u","t","i","n","g">>>>,
       description |-> <<"xss description STORED/attr">>,
       defensive_notes |-> <<"xss defensive notes STORED/attr">>],
      [title |->
            <<"F","i","l","t","e","r"," ","E","v","a","s","i","o","n"," ","C","o","n","c","e","p",
              "t","s"," ","(","A","t","t","r","i","b","u","t","e"," ","c","o","n","t","e","x","t",
              ")"," ","-"," ","T","e","m","p","l","a","t","e">>,
       payload |->
            <<"<","<","X","S","S","_","T","E","M","P","L","A","T","E",":"," ","B","Y","P","A","S",
              "S","_","C","O","N","C","E","P","T","S"," ","|"," ","C","O","N","T","E","X","T","=",
              "a","t","t","r"," ","|"," ","N","O","T","E","=","d","e","s","c","r","i","p","t","i",
              "v","e","_","o","n","l","y",">",">">>,
       context |-> s_attr,
       risk_level |-> s_low,
       tags |-> <<<<"b","y","p","a","s","s","-","c","o","n","c","e","p","t","s">>,
                    <<"c","o","n","t","e","x","t",":","a","t","t","r">>,
                    <<"e","d","u","c","a","t","i","o","n","-","o","n","l","y">>,
                    <<"n","o","n","-","e","x","e","c","u","t","i","n","g">>>>,
       description |-> <<"xss description BYPASS_CONCEPTS/attr">>,
       defensive_notes |-> <<"xss defensive notes BYPASS_CONCEPTS/attr">>],
      [title |->
            <<"R","e","f","l","e","c","t","e","d"," ","X","S","S"," ","(","J","a","v","a","S","c",
              "r","i","p","t"," ","c","o","n","t","e","x","t",")"," ","-"," ","T","e","m","p","l",
              "a","t","e">>,
       payload |->
            <<"<","<","X","S","S","_","T","E","M","P","L","A","T","E",":"," ","R","E","F","L","E",
              "C","T","E","D"," ","|"," ","C","O","N","T","E","X","T","=","j","s"," ","|"," ","S",
              "I","N","K","=","J","S","_","S","T","R","I","N","G",">",">">>,
       context |-> s_js,
       risk_level |-> s_high,
       tags |-> <<<<"r","e","f","l","e","c","t","e","d">>,
                    <<"c","o","n","t","e","x","t",":","j","s">>,
                    <<"e","d","u","c","a","t","i","o","n","-","o","n","l","y">>,
                    <<"n","o","n","-","e","x","e","c","u","t","i","n","g">>>>,
       description |-> <<"xss description REFLECTED/js">>,
       defensive_notes |-> <<"xss defensive notes REFLECTED/js">>],
      [title |->
            <<"D","O","M","-","b","a","s","e","d"," ","X","S","S"," ","(","J","a","v","a","S","c",
              "r","i","p","t"," ","s","i","n","k",")"," ","-"," ","T","e","m","p","l","a","t","e">>,
       payload |->
            <<"<","<","X","S","S","_","T","E","M","P","L","A","T","E",":"," ","D","O","M"," ","|",
              " ","C","O","N","T","E","X","T","=","j","s"," ","|"," ","S","O","U","R","C","E","=",
              "l","o","c","a","t","i","o","n"," ","|"," ","S","I","N","K","=","d","o","m","_","w",
              "r","i","t","e",">",">">>,
       context |-> s_js,
       risk_level |-> s_high,
       tags |-> <<<<"d","o","m">>,
                    <<"c","o","n","t","e","x","t",":","j","s">>,
                    <<"e","d","u","c","a","t","i","o","n","-","o","n","l","y">>,
                    <<"n","o","n","-","e","x","e","c","u","t","i","n","g">>>>,
       description |-> <<"xss description DOM/js">>,
       defensive_notes |-> <<"xss defensive notes DOM/js">>],
      [title |->
            <<"E","n","c","o","d","i","n","g"," ","D","e","m","o","n","s","t","r","a","t","i","o",
              "n"," ","(","J","a","v","a","S","c","r","i","p","t"," ","c","o","n","t","e","x","t",
              ")"," ","-"," ","T","e","m","p","l","a","t","e">>,
       payload |->
            <<"<","<","X","S","S","_","T","E","M","P","L","A","T","E",":"," ","E","N","C","O","D",
              "I","N","G","_","D","E","M","O"," ","|"," ","C","O","N","T","E","X","T","=","j","s",
              " ","|"," ","N","O","T","E","=","r","e","p","r","e","s","e","n","t","a","t","i","o",
              "n","_","o","n","l","y",">",">">>,
       context |-> s_js,
       risk_level |-> s_low,
       tags |-> <<<<"e","n","c","o","d","i","n","g">>,
                    <<"c","o","n","t","e","x","t",":","j","s">>,
                    <<"e","d","u","c","a","t","i","o","n","-","o","n","l","y">>,
                    <<"n","o","n","-","e","x","e","c","u","t","i","n","g">>>>,
       description |-> <<"xss description ENCODING_DEMO/js">>,
       defensive_notes |-> <<"xss defensive notes ENCODING_DEMO/js">>]
    >>

_VALID_CONTEXTS ==
    {s_html, s_attr, s_js}

\* A variant of _normalize_context that compares the value as given.
normalize_context_exact(context) ==
    IF context = None THEN Returned(None)
    ELSE IF context = <<>> THEN Returned(None)
    ELSE IF context \notin _VALID_CONTEXTS THEN
        Raised(ValueError("Invalid XSS context '{context}'.", [context |-> context]))
    ELSE Returned(context)

\* modules/xss.py _normalize_context
normalize_context(context) ==
    IF context = None THEN Returned(None)
    ELSE LET c == Lower(Strip(context))
         IN  IF c = <<>> THEN Returned(None)
             ELSE IF c \notin _VALID_CONTEXTS THEN
                 Raised(ValueError("Invalid XSS context '{context}'.", [context |-> context]))
             ELSE Returned(c)

\* modules/xss.py generate_payloads(context=context)
xss_generate_payloads(context, h) ==
    LET ctx == normalize_context(context)
        wanted(t) == ctx.value = None \/ ctx.value = t.context
        fieldsOf(t) ==
            WithDefaults([module |-> s_xss, title |-> t.title, description |-> t.description,
                          payload |-> t.payload, context |-> t.context,
                          defensive_notes |-> t.defensive_notes,
                          risk_level |-> t.risk_level, tags |-> t.tags])
        chosen == SelectSeqBy(wanted, XSS_TEMPLATES)
    IN  IF ctx.raised THEN [res |-> ctx, heap |-> h]
        ELSE ConstructAll([k \in 1..Len(chosen) |-> fieldsOf(chosen[k])], h)
\* _TEMPLATES of modules/sqli.py
SQLI_TEMPLATES ==
    <<
      [key |-> <<"E","R","R","O","R","_","B","A","S","E","D">>,
       title |->
            <<"E","r","r","o","r","-","B","a","s","e","d"," ","S","Q","L","i">>,
       risk |-> s_high,
       tags |-> <<<<"e","r","r","o","r","-","b","a","s","e","d">>,
                    <<"e","d","u","c","a","t","i","o","n","-","o","n","l","y">>,
                    <<"n","o","n","-","e","x","e","c","u","t","i","n","g">>>>,
       description |-> <<"sqli description ERROR_BASED">>,
       defensive_notes |-> <<"sqli defensive notes ERROR_BASED">>],
      [key |-> <<"U","N","I","O","N","_","B","A","S","E","D">>,
       title |->
            <<"U","n","i","o","n","-","B","a","s","e","d"," ","S","Q","L","i">>,
       risk |-> s_high,
       tags |-> <<<<"u","n","i","o","n","-","b","a","s","e","d">>,
                    <<"e","d","u","c","a","t","i","o","n","-","o","n","l","y">>,
                    <<"n","o","n","-","e","x","e","c","u","t","i","n","g">>>>,
       description |-> <<"sqli description UNION_BASED">>,
       defensive_notes |-> <<"sqli defensive notes UNION_BASED">>],
      [key |-> <<"B","L","I","N","D","_","B","O","O","L","E","A","N">>,
       title |->
            <<"B","l","i","n","d"," ","S","Q","L","i"," ","(","B","o","o","l","e","a","n","-","B",
              "a","s","e","d",")">>,
       risk |-> s_medium,
       tags |-> <<<<"b","l","i","n","d">>,
                    <<"b","o","o","l","e","a","n","-","b","a","s","e","d">>,
                    <<"e","d","u","c","a","t","i","o","n","-","o","n","l","y">>,
                    <<"n","o","n","-","e","x","e","c","u","t","i","n","g">>>>,
       description |-> <<"sqli description BLIND_BOOLEAN">>,
       defensive_notes |-> <<"sqli defensive notes BLIND_BOOLEAN">>],
      [key |-> <<"B","L","I","N","D","_","T","I","M","E">>,
       title |->
            <<"B","l","i","n","d"," ","S","Q","L","i"," ","(","T","i","m","e","-","B","a","s","e",
              "d",")">>,
       risk |-> s_medium,
       tags |-> <<<<"b","l","i","n","d">>,
                    <<"t","i","m","e","-","b","a","s","e","d">>,
                    <<"e","d","u","c","a","t","i","o","n","-","o","n","l","y">>,
                    <<"n","o","n","-","e","x","e","c","u","t","i","n","g">>>>,
       description |-> <<"sqli description BLIND_TIME">>,
       defensive_notes |-> <<"sqli defensive notes BLIND_TIME">>],
      [key |-> <<"B","Y","P","A","S","S","_","C","O","N","C","E","P","T","S">>,
       title |->
            <<"F","i","l","t","e","r"," ","E","v","a","s","i","o","n"," ","C","o","n","c","e","p",
              "t","s"," ","(","C","o","m","m","e","n","t","s"," ","/"," ","C","a","s","e",")">>,
       risk |-> s_low,
       tags |-> <<<<"b","y","p","a","s","s","-","c","o","n","c","e","p","t","s">>,
                    <<"e","d","u","c","a","t","i","o","n","-","o","n","l","y">>,
                    <<"n","o","n","-","e","x","e","c","u","t","i","n","g">>>>,
       description |-> <<"sqli description BYPASS_CONCEPTS">>,
       defensive_notes |-> <<"sqli defensive notes BYPASS_CONCEPTS">>]
    >>

\* _VALID_DB_TYPES of modules/sqli.py: alias -> database.
SQLI_VALID_DB_TYPES ==
    { <<s_mysql, s_mysql>>, <<s_mariadb, s_mysql>>,
      <<s_postgres, s_postgres>>, <<s_postgresql, s_postgres>>,
      <<s_mssql, s_mssql>>, <<s_sqlserver, s_mssql>>, <<s_sql_server, s_mssql>> }

\* dict.get(raw): the value under key raw, or None.
DictGet(dict, raw) ==
    IF \E kv \in dict : kv[1] = raw THEN (CHOOSE kv \in dict : kv[1] = raw)[2] ELSE None

normalize_db(db_type) ==
    LET raw == Lower(Strip(IF Truthy(db_type) THEN db_type ELSE <<>>))
        db == DictGet(SQLI_VALID_DB_TYPES, raw)
    IN  IF ~Truthy(db) THEN
            Raised(ValueError("Invalid db_type '{db_type}'.", [db_type |-> db_type]))
        ELSE Returned(db)

\* modules/sqli.py generate_payloads(db_type=db_type)
sqli_generate_payloads(db_type, h) ==
    LET db == normalize_db(db_type)
        fieldsOf(spec) ==
            WithDefaults(
                [module |-> s_sqli,
                 title |-> spec.title \o s_title_open \o db.value \o s_title_close,
                 description |-> spec.description,
                 payload |-> s_sqli_marker_open \o spec.key \o s_marker_db \o db.value
                             \o s_marker_close,
                 db_type |-> db.value,
                 defensive_notes |-> <<"Education-only (non-executing).">>
                                     \o spec.defensive_notes
                                     \o <<"_db_defense_highlights">> \o db.value,
                 risk_level |-> spec.risk,
                 tags |-> spec.tags \o <<s_db_tag \o db.value>>])
    IN  IF db.raised THEN [res |-> db, heap |-> h]
        ELSE ConstructAll([k \in 1..Len(SQLI_TEMPLATES) |-> fieldsOf(SQLI_TEMPLATES[k])], h)
\* _TEMPLATES of modules/cmd_injection.py
CMD_TEMPLATES ==
    <<
      [key |-> <<"B","A","S","I","C","_","C","O","N","C","E","P","T">>,
       title |->
            <<"C","o","m","m","a","n","d"," ","I","n","j","e","c","t","i","o","n"," ","(","B","a",
              "s","i","c"," ","C","o","n","c","e","p","t",")">>,
       risk |-> s_high,
       tags |-> <<<<"c","m","d","-","i","n","j","e","c","t","i","o","n">>,
                    <<"b","a","s","i","c","-","c","o","n","c","e","p","t">>,
                    <<"e","d","u","c","a","t","i","o","n","-","o","n","l","y">>,
                    <<"n","o","n","-","e","x","e","c","u","t","i","n","g">>>>,
       description |-> <<"cmd_injection description BASIC_CONCEPT">>,
       defensive_notes |-> <<"cmd_injection defensive notes BASIC_CONCEPT">>],
      [key |-> <<"S","E","P","A","R","A","T","O","R","_","C","O","N","C","E","P","T">>,
       title |->
            <<"C","o","m","m","a","n","d"," ","S","e","p","a","r","a","t","o","r"," ","C","o","n",
              "c","e","p","t">>,
       risk |-> s_high,
       tags |-> <<<<"c","m","d","-","i","n","j","e","c","t","i","o","n">>,
                    <<"s","e","p","a","r","a","t","o","r","-","c","o","n","c","e","p","t">>,
                    <<"e","d","u","c","a","t","i","o","n","-","o","n","l","y">>,
                    <<"n","o","n","-","e","x","e","c","u","t","i","n","g">>>>,
       description |-> <<"cmd_injection description SEPARATOR_CONCEPT">>,
       defensive_notes |-> <<"cmd_injection defensive notes SEPARATOR_CONCEPT">>],
      [key |-> <<"C","H","A","I","N","I","N","G","_","C","O","N","C","E","P","T">>,
       title |->
            <<"C","o","m","m","a","n","d"," ","C","h","a","i","n","i","n","g"," ","C","o","n","c",
              "e","p","t">>,
       risk |-> s_high,
       tags |-> <<<<"c","m","d","-","i","n","j","e","c","t","i","o","n">>,
                    <<"c","h","a","i","n","i","n","g","-","c","o","n","c","e","p","t">>,
                    <<"e","d","u","c","a","t","i","o","n","-","o","n","l","y">>,
                    <<"n","o","n","-","e","x","e","c","u","t","i","n","g">>>>,
       description |-> <<"cmd_injection description CHAINING_CONCEPT">>,
       defensive_notes |-> <<"cmd_injection defensive notes CHAINING_CONCEPT">>],
      [key |-> <<"F","I","L","T","E","R","_","E","V","A","S","I","O","N","_","C","O","N","C","E","P",
              "T","S">>,
       title |->
            <<"F","i","l","t","e","r"," ","E","v","a","s","i","o","n"," ","C","o","n","c","e","p",
              "t","s">>,
       risk |-> s_medium,
       tags |-> <<<<"c","m","d","-","i","n","j","e","c","t","i","o","n">>,
                    <<"b","y","p","a","s","s","-","c","o","n","c","e","p","t","s">>,
                    <<"e","d","u","c","a","t","i","o","n","-","o","n","l","y">>,
                    <<"n","o","n","-","e","x","e","c","u","t","i","n","g">>>>,
       description |-> <<"cmd_injection description FILTER_EVASION_CONCEPTS">>,
       defensive_notes |-> <<"cmd_injection defensive notes FILTER_EVASION_CONCEPTS">>],
      [key |-> <<"O","S","_","D","E","T","E","C","T","I","O","N","_","L","O","G","I","C">>,
       title |->
            <<"O","S"," ","D","e","t","e","c","t","i","o","n"," ","L","o","g","i","c"," ","C","o",
              "n","c","e","p","t">>,
       risk |-> s_low,
       tags |-> <<<<"c","m","d","-","i","n","j","e","c","t","i","o","n">>,
                    <<"o","s","-","d","e","t","e","c","t","i","o","n">>,
                    <<"e","d","u","c","a","t","i","o","n","-","o","n","l","y">>,
                    <<"n","o","n","-","e","x","e","c","u","t","i","n","g">>>>,
       description |-> <<"cmd_injection description OS_DETECTION_LOGIC">>,
       defensive_notes |-> <<"cmd_injection defensive notes OS_DETECTION_LOGIC">>]
    >>

\* _VALID_OS_TYPES of modules/cmd_injection.py: alias -> operating system.
CMD_VALID_OS_TYPES ==
    { <<s_linux, s_linux>>, <<s_unix, s_linux>>, <<s_gnu_linux, s_linux>>,
      <<s_bash, s_linux>>, <<s_sh, s_linux>>,
      <<s_windows, s_windows>>, <<s_win, s_windows>>, <<s_win32, s_windows>>,
      <<s_cmd, s_windows>>, <<s_powershell, s_windows>>, <<s_pwsh, s_windows>> }

normalize_os(os_type) ==
    LET raw == Lower(Strip(IF Truthy(os_type) THEN os_type ELSE <<>>))
        os_norm == DictGet(CMD_VALID_OS_TYPES, raw)
    IN  IF ~Truthy(os_norm) THEN
            Raised(ValueError("Invalid os_type '{os_type}'.", [os_type |-> os_type]))
        ELSE Returned(os_norm)

\* modules/cmd_injection.py generate_payloads(os_type=os_type)
cmd_generate_payloads(os_type, h) ==
    LET os_norm == normalize_os(os_type)
        fieldsOf(spec) ==
            WithDefaults(
                [module |-> s_cmd,
                 title |-> spec.title \o s_title_open \o os_norm.value \o s_title_close,
                 description |-> spec.description,
                 payload |-> s_cmd_marker_open \o spec.key \o s_marker_os \o os_norm.value
                             \o s_marker_close,
                 os_type |-> os_norm.value,
                 defensive_notes |-> <<"Education-only (non-executing).">>
                                     \o spec.defensive_notes
                                     \o <<"_os_defense_highlights">> \o os_norm.value,
                 risk_level |-> spec.risk,
                 tags |-> spec.tags \o <<s_os_tag \o os_norm.value>>])
    IN  IF os_norm.raised THEN [res |-> os_norm, heap |-> h]
        ELSE ConstructAll([k \in 1..Len(CMD_TEMPLATES) |-> fieldsOf(CMD_TEMPLATES[k])], h)

(***************************************************************************)
(* Generator functions                                                     *)
(*                                                                         *)
(* A generator is named by a token.  The three built-in ones are the       *)
(* generate_payloads functions of modules/; the others are functions a     *)
(* caller may hand to ModuleRegistry.register, each standing for one way   *)
(* an untrusted generator can behave.                                      *)
(***************************************************************************)

BUILTIN_GENERATORS ==
    {"xss.generate_payloads", "sqli.generate_payloads", "cmd_injection.generate_payloads"}

CALLER_GENERATORS ==
    {"returns_word_template", "returns_tuple", "returns_tampered", "raises_runtime_error"}

\* The keyword each built-in generator declares (its only parameter).
KeywordOf(generator) ==
    IF generator = "xss.generate_payloads" THEN "context"
    ELSE IF generator = "sqli.generate_payloads" THEN "db_type"
    ELSE "os_type"

\* "TEMPLATE x": a payload whose only marker is the word TEMPLATE.
s_word_template ==
    <<"T","E","M","P","L","A","T","E"," ","x">>

\* An object that is no PayloadTemplate (a dict, say), as an element of a list.
ForeignItem ==
    [NewInstance(DefaultFields, 0) EXCEPT !.cls = "dict",
                                          !.encoding_applied = NotAList,
                                          !.obfuscation_applied = NotAList,
                                          !.tags = NotAList]

WordTemplateFields ==
    WithDefaults([module |-> s_xss, title |-> <<"W">>, payload |-> s_word_template,
                  context |-> s_html])

\* What a generator call produces: res is Returned(v) with v.is_list telling whether
\* the value is a list and v.items its elements, or Raised(exception).
ListValue(items) ==
    [is_list |-> TRUE, items |-> items]

\* The value of a built-in generator as the registry sees it: a list.
AsListValue(g) ==
    IF g.res.raised THEN g
    ELSE [res |-> Returned(ListValue(g.res.value)), heap |-> g.heap]

\* What a caller-supplied generator returns, having built the two instances of
\* built.
CallerGenerated(generator, built) ==
    IF generator = "returns_word_template" THEN
        [res |-> Returned(ListValue(built.res.value)), heap |-> built.heap]
    ELSE IF generator = "returns_tuple" THEN
        [res |-> Returned([is_list |-> FALSE, items |-> built.res.value]),
         heap |-> built.heap]
    ELSE \* returns_tampered: a valid instance, one whose flag was assigned after
         \* construction, and an object of another class.
        [res |-> Returned(ListValue(
                     <<built.res.value[1],
                       [built.res.value[2] EXCEPT !.disabled_by_default = "False"],
                       ForeignItem>>)),
         heap |-> built.heap]

\* generator(**{kw: value}) with the heap h: the result and the heap after it.
CallGenerator(generator, kw, value, h) ==
    IF generator \in BUILTIN_GENERATORS THEN
        IF kw # KeywordOf(generator) THEN
            [res |-> Raised(Exc("TypeError",
                                "generate_payloads() got an unexpected keyword argument",
                                [kw |-> kw])),
             heap |-> h]
        ELSE IF generator = "xss.generate_payloads"
            THEN AsListValue(xss_generate_payloads(value, h))
        ELSE IF generator = "sqli.generate_payloads"
            THEN AsListValue(sqli_generate_payloads(value, h))
        ELSE AsListValue(cmd_generate_payloads(value, h))
    ELSE IF generator = "raises_runtime_error" THEN
        [res |-> Raised(Exc("RuntimeError", "generator failed", NoArgs)), heap |-> h]
    ELSE CallerGenerated(generator, ConstructAll(<<WordTemplateFields, WordTemplateFields>>, h))

(***************************************************************************)
(* core/registry.py: ModuleRegistry                                        *)
(***************************************************************************)

RegistryError(msg, args) ==
    Exc("RegistryError", msg, args)

ModuleSpec(name, generator, requires_db, requires_os) ==
    [name |-> name, generator |-> generator,
     requires_db |-> requires_db, requires_os |-> requires_os]

\* A variant of register that replaces an existing entry.
register_overwriting(reg, module_name, func, requires_db, requires_os) ==
    [registry |-> [n \in DOMAIN reg \cup {module_name} |->
                      IF n = module_name
                      THEN ModuleSpec(module_name, func, requires_db, requires_os)
                      ELSE reg[n]],
     res |-> Returned(None)]

\* ModuleRegistry.register: the registry after the call and how the call ended.
register(reg, module_name, func, requires_db, requires_os) ==
    IF module_name \in DOMAIN reg THEN
        [registry |-> reg,
         res |-> Raised(RegistryError("Module '{module_name}' is already registered.",
                                      [module_name |-> module_name]))]
    ELSE
        [registry |-> [n \in DOMAIN reg \cup {module_name} |->
                          IF n = module_name
                          THEN ModuleSpec(module_name, func, requires_db, requires_os)
                          ELSE reg[n]],
         res |-> Returned(None)]

\* ModuleRegistry.get_spec: NoExc when the module is registered.
get_spec(reg, module_name) ==
    IF module_name \notin DOMAIN reg THEN
        RegistryError("Module '{module_name}' is not registered. Available: {self.list_modules()}",
                      [module_name |-> module_name, available |-> DOMAIN reg])
    ELSE NoExc

\* A variant of validate_selectors without the rule for xss.
validate_selectors_flags_only(reg, module_name, db_type, os_type, context) ==
    IF get_spec(reg, module_name) # NoExc THEN get_spec(reg, module_name)
    ELSE IF reg[module_name].requires_db /\ ~Truthy(db_type) THEN
        RegistryError("Module '{module_name}' requires 'db_type' selector.",
                      [module_name |-> module_name])
    ELSE IF reg[module_name].requires_os /\ ~Truthy(os_type) THEN
        RegistryError("Module '{module_name}' requires 'os_type' selector.",
                      [module_name |-> module_name])
    ELSE NoExc

\* ModuleRegistry.validate_selectors: NoExc when it returns.
validate_selectors(reg, module_name, db_type, os_type, context) ==
    IF get_spec(reg, module_name) # NoExc THEN get_spec(reg, module_name)
    ELSE IF reg[module_name].requires_db /\ ~Truthy(db_type) THEN
        RegistryError("Module '{module_name}' requires 'db_type' selector.",
                      [module_name |-> module_name])
    ELSE IF reg[module_name].requires_os /\ ~Truthy(os_type) THEN
        RegistryError("Module '{module_name}' requires 'os_type' selector.",
                      [module_name |-> module_name])
    ELSE IF module_name = s_xss /\ ~Truthy(context) THEN
        RegistryError("Module 'xss' requires 'context' selector.", NoArgs)
    ELSE NoExc

\* The keyword argument ModuleRegistry.generate passes to the generator.
SelectorPassed(spec, db_type, os_type, context) ==
    IF spec.requires_db THEN [kw |-> "db_type", value |-> db_type]
    ELSE IF spec.requires_os THEN [kw |-> "os_type", value |-> os_type]
    ELSE [kw |-> "context", value |-> context]

\* The re-validation loop of ModuleRegistry.generate over the list items: NoExc
\* when every element passes, else the exception raised at the first that does not.
RECURSIVE Revalidate(_, _, _, _)
Revalidate(module_name, items, i, h) ==
    IF i > Len(items) THEN NoExc
    ELSE IF items[i].cls # "PayloadTemplate" THEN
        RegistryError("Item {i} from module '{module_name}' is not PayloadTemplate.",
                      [i |-> i - 1, module_name |-> module_name])
    ELSE IF validate(items[i], h) # NoExc THEN
        ExcFrom("PayloadValidationError",
                "Invalid payload from module '{module_name}' at index {i}: {e}",
                [i |-> i - 1, module_name |-> module_name],
                validate(items[i], h))
    ELSE Revalidate(module_name, items, i + 1, h)

\* A variant of the re-validation loop that tests the class of each element only.
RECURSIVE RevalidateClasses(_, _, _)
RevalidateClasses(module_name, items, i) ==
    IF i > Len(items) THEN NoExc
    ELSE IF items[i].cls # "PayloadTemplate" THEN
        RegistryError("Item {i} from module '{module_name}' is not PayloadTemplate.",
                      [i |-> i - 1, module_name |-> module_name])
    ELSE RevalidateClasses(module_name, items, i + 1)

revalidate_classes_only(module_name, items, h) ==
    RevalidateClasses(module_name, items, 1)

\* The whole loop: for i, item in enumerate(items).
revalidate(module_name, items, h) ==
    Revalidate(module_name, items, 1, h)

\* ModuleRegistry.generate from the return of the generator call on: g is what
\* the call produced, h the heap before it.
AfterGenerator(module_name, call, g, h) ==
    IF g.res.raised THEN [res |-> g.res, heap |-> h, calls |-> <<call>>]
    ELSE IF ~g.res.value.is_list THEN
        [res |-> Raised(RegistryError(
                    "Module '{module_name}' must return List[PayloadTemplate].",
                    [module_name |-> module_name])),
         heap |-> h, calls |-> <<call>>]
    ELSE IF revalidate(module_name, g.res.value.items, g.heap) # NoExc THEN
        [res |-> Raised(revalidate(module_name, g.res.value.items, g.heap)),
         heap |-> h, calls |-> <<call>>]
    ELSE [res |-> Returned(g.res.value.items), heap |-> g.heap, calls |-> <<call>>]

\* ModuleRegistry.generate(module_name, db_type=, os_type=, context=): res is
\* Returned(items) or Raised(exception); heap is the heap after the call; calls
\* lists the generator invocations made, each with the keyword and value passed.
registry_generate(reg, module_name, db_type, os_type, context, h) ==
    LET sel == validate_selectors(reg, module_name, db_type, os_type, context)
        spec == reg[module_name]
        passed == SelectorPassed(spec, db_type, os_type, context)
    IN  IF sel # NoExc THEN [res |-> Raised(sel), heap |-> h, calls |-> <<>>]
        ELSE AfterGenerator(
                 module_name,
                 [generator |-> spec.generator, kw |-> passed.kw, value |-> passed.value],
                 CallGenerator(spec.generator, passed.kw, passed.value, h),
                 h)

(***************************************************************************)
(* core/pipeline.py: PayloadPipeline                                       *)
(***************************************************************************)

\* The classes that "except Exception" catches: every exception class of the
\* program derives from Exception.
EXCEPTION_CLASSES ==
    {"PayloadValidationError", "RegistryError", "EncodingError", "ObfuscationError",
     "PipelineError", "JSONExportError", "TXTExportError", "ValueError", "TypeError",
     "RuntimeError", "OSError"}

PipelineError(msg, args, cause) ==
    ExcFrom("PipelineError", msg, args, cause)

\* A variant of the except clause that catches RegistryError only.
GenerationFailedOnRegistryError(r) ==
    IF r.res.raised /\ r.res.exc.type = "RegistryError"
    THEN [r EXCEPT !.res = Raised(PipelineError("Generation failed: {e}", NoArgs, r.res.exc))]
    ELSE r

\* except Exception as e: raise PipelineError(...) from e, on the result r of the
\* registry call.
GenerationFailed(r) ==
    IF r.res.raised /\ r.res.exc.type \in EXCEPTION_CLASSES
    THEN [r EXCEPT !.res = Raised(PipelineError("Generation failed: {e}", NoArgs, r.res.exc))]
    ELSE r

\* PayloadPipeline.generate
pipeline_generate(reg, module, db_type, os_type, context, h) ==
    GenerationFailed(registry_generate(reg, module, db_type, os_type, context, h))

\* The loop of apply_encoding_to_all from element k on, with out the clones made
\* so far: the transform, then the clone, then the append to the clone's history.
RECURSIVE EncodingLoop(_, _, _, _, _)
EncodingLoop(items, method, k, out, h) ==
    IF k > Len(items) THEN [res |-> Returned(out), heap |-> h]
    ELSE LET new_payload == encode_payload(items[k].payload, method)
             new_item == clone_with_updates(items[k], [payload |-> new_payload.value], h)
         IN  IF new_payload.raised THEN
                 [res |-> Raised(PipelineError("Encoding '{method}' failed: {e}",
                                               [method |-> method], new_payload.exc)),
                  heap |-> h]
             ELSE IF new_item.raised THEN [res |-> new_item, heap |-> h]
             ELSE EncodingLoop(items, method, k + 1, Append(out, new_item.value),
                               ListAppend(h, new_item.value.encoding_applied, method))

\* PayloadPipeline.apply_encoding_to_all
apply_encoding_to_all(items, method, h) ==
    EncodingLoop(items, method, 1, <<>>, h)

RECURSIVE ObfuscationLoop(_, _, _, _, _)
ObfuscationLoop(items, technique, k, out, h) ==
    IF k > Len(items) THEN [res |-> Returned(out), heap |-> h]
    ELSE LET new_payload == obfuscate_payload(items[k].payload, technique)
             new_item == clone_with_updates(items[k], [payload |-> new_payload.value], h)
         IN  IF new_payload.raised THEN
                 [res |-> Raised(PipelineError("Obfuscation '{technique}' failed: {e}",
                                               [technique |-> technique], new_payload.exc)),
                  heap |-> h]
             ELSE IF new_item.raised THEN [res |-> new_item, heap |-> h]
             ELSE ObfuscationLoop(items, technique, k + 1, Append(out, new_item.value),
                                  ListAppend(h, new_item.value.obfuscation_applied,
                                             technique))

\* PayloadPipeline.apply_obfuscation_to_all
apply_obfuscation_to_all(items, technique, h) ==
    ObfuscationLoop(items, technique, 1, <<>>, h)

(***************************************************************************)
(* exporters/json_exporter.py and exporters/txt_exporter.py                *)
(***************************************************************************)

\* a < b for two str values, as Python orders them (by code point).
RECURSIVE StrLess(_, _)
StrLess(a, b) ==
    IF b = <<>> THEN FALSE
    ELSE IF a = <<>> THEN TRUE
    ELSE IF Head(a) # Head(b) THEN Ord(Head(a)) < Ord(Head(b))
    ELSE StrLess(Tail(a), Tail(b))

\* The sort key of both exporters: (module, title.lower()).
SortKeyLess(x, y) ==
    \/ StrLess(x.module, y.module)
    \/ x.module = y.module /\ StrLess(Lower(x.title), Lower(y.title))

\* list.sort(key=...): stable, so equal keys keep their input order.
SortedByKey(items) ==
    LET before(i, j) == SortKeyLess(items[i], items[j])
                        \/ (~SortKeyLess(items[j], items[i]) /\ i < j)
        place(i) == 1 + Cardinality({j \in 1..Len(items) : before(j, i)})
    IN  [p \in 1..Len(items) |-> items[CHOOSE i \in 1..Len(items) : place(i) = p]]

\* A variant of _validate_items that tests the class of the elements only.
RECURSIVE export_validate_items_class_only(_, _, _)
export_validate_items_class_only(errorClass, items, i) ==
    IF i > Len(items) THEN NoExc
    ELSE IF items[i].cls # "PayloadTemplate" THEN
        Exc(errorClass, "Item at index {i} is not PayloadTemplate (got {type(item)}).",
            [i |-> i - 1])
    ELSE export_validate_items_class_only(errorClass, items, i + 1)

\* _validate_items of either exporter: NoExc, or the error of the first element
\* that is no PayloadTemplate or whose flag is not True.
RECURSIVE export_validate_items(_, _, _)
export_validate_items(errorClass, items, i) ==
    IF i > Len(items) THEN NoExc
    ELSE IF items[i].cls # "PayloadTemplate" THEN
        Exc(errorClass, "Item at index {i} is not PayloadTemplate (got {type(item)}).",
            [i |-> i - 1])
    ELSE IF items[i].disabled_by_default # "True" THEN
        Exc(errorClass, "Item at index {i} violates safety: disabled_by_default must be True.",
            [i |-> i - 1])
    ELSE export_validate_items(errorClass, items, i + 1)

\* A variant of _validate_items that hands the caller's list back.
validated_in_place(items) ==
    [elements |-> items, is_items |-> TRUE]

\* What _validate_items returns when no element is refused: validated, a list
\* made in the call, holding the elements of items in their order.
validated_list(items) ==
    [elements |-> items, is_items |-> FALSE]

\* The list the caller passed to an exporter, after validated =
\* _validate_items(items) and validated.sort(key=...).
items_after_export(errorClass, items) ==
    LET validated == validated_list(items)
    IN  IF export_validate_items(errorClass, items, 1) # NoExc THEN items
        ELSE IF validated.is_items THEN SortedByKey(validated.elements)
        ELSE items

\* PayloadTemplate.to_json_safe: the fields, with the lists copied by value.
to_json_safe(self, h) ==
    [self EXCEPT !.encoding_applied = h[self.encoding_applied],
                 !.obfuscation_applied = h[self.obfuscation_applied],
                 !.tags = h[self.tags]]

RESERVED_META_KEYS ==
    {"schema", "exported_at", "count", "payloads"}

\* A meta argument that is None or an empty dict.
NoMeta ==
    [k \in {} |-> ""]

\* Values of a meta mapping that json.dumps cannot serialise: a set.
UNSERIALISABLE ==
    {"<set>"}

\* json.dumps of one value of meta: a str is written as it is and a tuple as a
\* list.
json_value(v) ==
    IF v = "<tuple>" THEN "<list>" ELSE v

\* json.dumps(doc, ...): Returned(the document as the text holds it) or
\* Raised(TypeError).  The payloads are to_json_safe's values, which it writes
\* as they are.
json_dumps(doc) ==
    IF \E k \in DOMAIN doc.meta : doc.meta[k] \in UNSERIALISABLE
    THEN Raised(Exc("TypeError", "Object of type {type} is not JSON serializable", NoArgs))
    ELSE Returned([doc EXCEPT !.meta = [k \in DOMAIN doc.meta |-> json_value(doc.meta[k])]])

\* A variant of export_json that merges meta into the top level of the document
\* instead of refusing its reserved keys.
json_document_meta_merged(items, meta, h) ==
    LET invalid == export_validate_items("JSONExportError", items, 1)
        validated == SortedByKey(items)
        payloads == [k \in 1..Len(validated) |-> to_json_safe(validated[k], h)]
        doc == [schema |-> IF "schema" \in DOMAIN meta THEN meta.schema
                           ELSE "proteus.payloads.v1",
                exported_at |-> IF "exported_at" \in DOMAIN meta THEN meta.exported_at
                                ELSE "_now_iso()",
                count |-> IF "count" \in DOMAIN meta THEN meta.count ELSE Len(payloads),
                payloads |-> IF "payloads" \in DOMAIN meta THEN meta.payloads ELSE payloads,
                meta |-> meta]
        text == json_dumps(doc)
    IN  IF invalid # NoExc THEN Raised(invalid)
        ELSE IF text.raised THEN
            Raised(ExcFrom("JSONExportError", "JSON export failed: {e}", NoArgs, text.exc))
        ELSE text

\* A variant of export_json whose count is the size of the document, not of the
\* list of payloads.
json_document_counting_keys(items, meta, h) ==
    LET invalid == export_validate_items("JSONExportError", items, 1)
        validated == SortedByKey(items)
        payloads == [k \in 1..Len(validated) |-> to_json_safe(validated[k], h)]
        doc == [schema |-> "proteus.payloads.v1", exported_at |-> "_now_iso()",
                count |-> Cardinality({"schema", "exported_at", "count", "payloads", "meta"}),
                payloads |-> payloads, meta |-> meta]
        text == json_dumps(doc)
    IN  IF invalid # NoExc THEN Raised(invalid)
        ELSE IF DOMAIN meta \cap RESERVED_META_KEYS # {} THEN
            Raised(Exc("JSONExportError", "meta contains reserved keys: {sorted(collisions)}",
                       [collisions |-> DOMAIN meta \cap RESERVED_META_KEYS]))
        ELSE IF text.raised THEN
            Raised(ExcFrom("JSONExportError", "JSON export failed: {e}", NoArgs, text.exc))
        ELSE text

\* export_json up to the write: Returned(document) or Raised(JSONExportError).
json_document(items, meta, h) ==
    LET invalid == export_validate_items("JSONExportError", items, 1)
        validated == SortedByKey(items)
        payloads == [k \in 1..Len(validated) |-> to_json_safe(validated[k], h)]
        doc == [schema |-> "proteus.payloads.v1", exported_at |-> "_now_iso()",
                count |-> Len(payloads), payloads |-> payloads, meta |-> meta]
        text == json_dumps(doc)
    IN  IF invalid # NoExc THEN Raised(invalid)
        ELSE IF DOMAIN meta \cap RESERVED_META_KEYS # {} THEN
            Raised(Exc("JSONExportError", "meta contains reserved keys: {sorted(collisions)}",
                       [collisions |-> DOMAIN meta \cap RESERVED_META_KEYS]))
        ELSE IF text.raised THEN
            Raised(ExcFrom("JSONExportError", "JSON export failed: {e}", NoArgs, text.exc))
        ELSE text

\* export_txt up to the write: Returned(document) or Raised(TXTExportError).  The
\* document is the header values and, per record, the values its section prints.
txt_document(items, meta, h) ==
    LET invalid == export_validate_items("TXTExportError", items, 1)
        validated == SortedByKey(items)
        entries == [k \in 1..Len(validated) |-> to_json_safe(validated[k], h)]
        doc == [schema |-> "proteus.payloads.v1", exported_at |-> "_now_iso_utc()",
                count |-> Len(entries), entries |-> entries, meta |-> meta]
    IN  IF invalid # NoExc THEN Raised(invalid) ELSE Returned(doc)

\* export_json / export_txt up to the write (exporter.export passes its arguments
\* on): Returned(document) or Raised(the exporter's error).
export_document(format, items, meta, h) ==
    IF format = s_json THEN json_document(items, meta, h) ELSE txt_document(items, meta, h)

\* The error class of each exporter.
ErrorClassOf(format) ==
    IF format = s_json THEN "JSONExportError" ELSE "TXTExportError"

(***************************************************************************)
(* _atomic_write_text, one operator per operating-system call.  Each takes *)
(* the activation w, the file system fs and whether the call succeeds, and *)
(* gives the activation and the file system afterwards.                    *)
(***************************************************************************)

\* A file of the file system: the text it was written from and how much of it
\* the file holds ("empty", "prefix": some of it as flushed so far, "all").
FileContent(data, written) ==
    [data |-> data, written |-> written]

\* The file system and the descriptor table before any export: the working
\* directory alone.
NoFiles ==
    [file |-> [p \in {} |-> FileContent(NoMeta, "empty")], dirs |-> {<<".">>}, open |-> {}]

Put(file, path, content) ==
    [q \in DOMAIN file \cup {path} |-> IF q = path THEN content ELSE file[q]]

Remove(file, path) ==
    [q \in DOMAIN file \ {path} |-> file[q]]

\* No _atomic_write_text in progress.
NoWrite ==
    [pc |-> "idle"]

\* The activation of _atomic_write_text(path, content) at its first statement,
\* called by the exporter whose error is errorClass, for the call op(args).
BeginWrite(path, content, errorClass, op, args) ==
    [pc |-> "mkdir", path |-> path, content |-> content, fd |-> "None", tmp_path |-> None,
     exc |-> NoExc, errorClass |-> errorClass, op |-> op, args |-> args]

OSError ==
    Exc("OSError", "{strerror}", NoArgs)

\* Path(path).parent
Parent(path) ==
    LET slashes == {k \in 1..Len(path) : path[k] = "/"}
    IN  IF slashes = {} THEN <<".">>
        ELSE SubSeq(path, 1, (CHOOSE k \in slashes : \A j \in slashes : j <= k) - 1)

\* _ensure_parent_dir(path): path.parent.mkdir(parents=True, exist_ok=True).  It
\* runs before the try block, so its failure leaves straight away.
ensure_parent_dir(w, fs, ok) ==
    LET dir == Parent(w.path)
        made == {SubSeq(dir, 1, k - 1) : k \in {k \in 1..Len(dir) : dir[k] = "/"}}
                \cup {dir}
    IN  IF ok THEN [write |-> [w EXCEPT !.pc = "mkstemp"],
                    files |-> [fs EXCEPT !.dirs = @ \cup made]]
        ELSE [write |-> [w EXCEPT !.pc = "exit", !.exc = OSError], files |-> fs]

\* The names tempfile.mkstemp(prefix=path.name + ".", suffix=".tmp", dir=parent)
\* tries, in the directory of path: it takes the first that no file has.
TempName(path) ==
    path \o <<".", "<random>", ".", "t", "m", "p">>

OtherTempName(path) ==
    path \o <<".", "<random'>", ".", "t", "m", "p">>

FreshTempName(path, fs) ==
    IF TempName(path) \in DOMAIN fs.file THEN OtherTempName(path) ELSE TempName(path)

\* The descriptor an open gives: the lowest one that is not open.
FreshFd(fs) ==
    IF "fd" \in fs.open THEN "fd'" ELSE "fd"

\* A variant of mkstemp that opens the one name path + ".<random>.tmp" whether
\* or not a file has it.
mkstemp_one_name(w, fs, ok) ==
    IF ok THEN [write |-> [w EXCEPT !.pc = "fdopen", !.fd = FreshFd(fs),
                                    !.tmp_path = TempName(w.path)],
                files |-> [fs EXCEPT !.file = Put(@, TempName(w.path),
                                                  FileContent(w.content, "empty")),
                                     !.open = @ \cup {FreshFd(fs)}]]
    ELSE [write |-> [w EXCEPT !.pc = "finally", !.exc = OSError], files |-> fs]

\* fd, tmp_path = tempfile.mkstemp(...)
mkstemp(w, fs, ok) ==
    IF ok THEN [write |-> [w EXCEPT !.pc = "fdopen", !.fd = FreshFd(fs),
                                    !.tmp_path = FreshTempName(w.path, fs)],
                files |-> [fs EXCEPT !.file = Put(@, FreshTempName(w.path, fs),
                                                  FileContent(w.content, "empty")),
                                     !.open = @ \cup {FreshFd(fs)}]]
    ELSE [write |-> [w EXCEPT !.pc = "finally", !.exc = OSError], files |-> fs]

\* The OSError of a call on a descriptor that is not open.
EBADF ==
    Exc("OSError", "[Errno 9] Bad file descriptor", NoArgs)

\* with os.fdopen(fd, "w", encoding="utf-8") as f:
fdopen(w, fs, ok) ==
    IF w.fd \notin fs.open THEN
        [write |-> [w EXCEPT !.pc = "finally", !.exc = EBADF], files |-> fs]
    ELSE IF ok THEN [write |-> [w EXCEPT !.pc = "write"], files |-> fs]
    ELSE [write |-> [w EXCEPT !.pc = "finally", !.exc = OSError], files |-> fs]

\* A variant of f.write that writes to the destination itself.
f_write_in_place(w, fs, ok) ==
    [write |-> [w EXCEPT !.pc = IF ok THEN "close" ELSE "finally",
                         !.exc = IF ok THEN NoExc ELSE OSError],
     files |-> [fs EXCEPT !.file = Put(@, w.path, FileContent(w.content, "prefix")),
                          !.open = IF ok THEN @ ELSE @ \ {w.fd}]]

\* f.write(content): the temporary file holds what the buffer has flushed.  When
\* it fails the with statement closes f, and the descriptor with it.  It fails
\* with EBADF when the descriptor is no longer open.
f_write(w, fs, ok) ==
    IF w.fd \notin fs.open THEN
        [write |-> [w EXCEPT !.pc = "finally", !.exc = EBADF], files |-> fs]
    ELSE
        [write |-> [w EXCEPT !.pc = IF ok THEN "close" ELSE "finally",
                             !.exc = IF ok THEN NoExc ELSE OSError],
         files |-> [fs EXCEPT !.file = Put(@, w.tmp_path, FileContent(w.content, "prefix")),
                              !.open = IF ok THEN @ ELSE @ \ {w.fd}]]

\* The end of the with statement: f.close() flushes the rest and closes the
\* descriptor (also when the flush fails); then fd = None.
f_close(w, fs, ok) ==
    IF w.fd \notin fs.open THEN
        [write |-> [w EXCEPT !.pc = "finally", !.exc = EBADF], files |-> fs]
    ELSE IF ok
    THEN [write |-> [w EXCEPT !.pc = "replace", !.fd = "None"],
          files |-> [fs EXCEPT !.file = Put(@, w.tmp_path, FileContent(w.content, "all")),
                               !.open = @ \ {w.fd}]]
    ELSE [write |-> [w EXCEPT !.pc = "finally", !.exc = OSError],
          files |-> [fs EXCEPT !.open = @ \ {w.fd}]]

\* os.replace(tmp_path, str(path)); tmp_path = None
os_replace(w, fs, ok) ==
    IF ok THEN [write |-> [w EXCEPT !.pc = "finally", !.tmp_path = None],
                files |-> [fs EXCEPT !.file = Remove(Put(@, w.path, @[w.tmp_path]),
                                                     w.tmp_path)]]
    ELSE [write |-> [w EXCEPT !.pc = "finally", !.exc = OSError], files |-> fs]

\* The finally block: os.close(fd) if fd is set, os.remove(tmp_path) if tmp_path
\* is set, an OSError of either swallowed.  ok tells whether os.remove succeeds.
finally(w, fs, ok) ==
    [write |-> [w EXCEPT !.pc = "exit"],
     files |-> [fs EXCEPT !.open = @ \ {w.fd},
                          !.file = IF w.tmp_path # None /\ ok THEN Remove(@, w.tmp_path)
                                   ELSE @]]

\* How the exporter's call ends once _atomic_write_text has left: the path, or
\* the exporter's error raised from the OSError.
export_result(w) ==
    IF w.exc = NoExc THEN Returned(w.path)
    ELSE Raised(ExcFrom(w.errorClass, "export failed: {e}", NoArgs, w.exc))

(***************************************************************************)
(* The caller                                                              *)
(*                                                                         *)
(* The caller makes one call on values it builds from literals (a          *)
(* construction, a registration, a generation, a run), then up to          *)
(* MaxCalls - 1 calls on the records it holds, then drops everything it     *)
(* holds and removes the files written.  The registry lives as long as the *)
(* process.                                                                *)
(***************************************************************************)

MaxCalls ==
    2

Idle ==
    [pc |-> "idle"]

NoOutcome ==
    [op |-> "none", done |-> TRUE, raised |-> FALSE, exc |-> NoExc]

\* How the call op(args) ended; invoked lists the generator invocations it made.
Outcome(op, args, res, invoked) ==
    [op |-> op, args |-> args, done |-> TRUE, raised |-> res.raised, exc |-> res.exc,
     invoked |-> invoked]

Fresh ==
    run = Idle /\ write = NoWrite /\ held = <<>> /\ ncalls = 0

\* The longest list the caller passes back to the program.
MaxHeld ==
    2

FollowUp ==
    /\ run = Idle /\ write = NoWrite
    /\ held # <<>> /\ Len(held) <= MaxHeld /\ ncalls < MaxCalls

s_demo ==
    <<"d","e","m","o">>

\* initialize_registry(): the three built-in modules.
InitialRegistry ==
    [n \in {s_xss, s_sqli, s_cmd} |->
        IF n = s_xss THEN ModuleSpec(s_xss, "xss.generate_payloads", FALSE, FALSE)
        ELSE IF n = s_sqli THEN ModuleSpec(s_sqli, "sqli.generate_payloads", TRUE, FALSE)
        ELSE ModuleSpec(s_cmd, "cmd_injection.generate_payloads", FALSE, TRUE)]

Init ==
    /\ registry = InitialRegistry
    /\ heap = <<>>
    /\ held = <<>>
    /\ outcome = NoOutcome
    /\ run = Idle
    /\ files = NoFiles
    /\ write = NoWrite
    /\ conc = <<>>
    /\ ncalls = 0

(***************************************************************************)
(* Inputs                                                                  *)
(***************************************************************************)

ConstructInputs ==
    [module : {s_xss, s_sqli, s_cmd, <<"x">>},
     title : {<<"W">>, <<" ">>},
     description : {<<>>},
     payload : {s_word_template, NonStr},
     context : {None, s_html, <<"s","v","g">>},
     db_type : {None, s_mysql, <<"o","r","a","c","l","e">>},
     os_type : {None, s_linux},
     tags : {<< <<"t">> >>, NonListValue, <<NonStr>>},
     defensive_notes : {<<>>},
     risk_level : {s_low, <<"b","o","g","u","s">>},
     disabled_by_default : {"True", "False", "1"},
     created_at : {"aware", "naive"}]

CloneUpdates ==
    {[payload |-> <<"{","{","T","}","}">>],
     [payload |-> <<" ">>],
     [disabled_by_default |-> "False"],
     [disabled_by_default |-> "1"],
     [db_type |-> s_mysql],
     [module |-> s_cmd, os_type |-> s_linux, context |-> None, db_type |-> None],
     [title |-> <<"V">>, disabled_by_default |-> "True"]}

\* The last one asks for both a database and an OS.
RegisterInputs ==
    {ModuleSpec(s_demo, g, FALSE, FALSE) : g \in CALLER_GENERATORS}
    \cup {ModuleSpec(s_xss, "returns_word_template", FALSE, FALSE),
          ModuleSpec(s_sqli, "sqli.generate_payloads", TRUE, FALSE),
          ModuleSpec(s_demo, "returns_word_template", TRUE, TRUE)}

Selectors(module, db_type, os_type, context) ==
    [module |-> module, db_type |-> db_type, os_type |-> os_type, context |-> context]

s_nope ==
    <<"n","o","p","e">>

s_oracle ==
    <<"o","r","a","c","l","e">>

\* Each module with values of its own selector (none, the canonical names, aliases
\* in another case and with blanks, an unknown name), alone and with the two other
\* selectors given as well.
GenerateInputs ==
    {Selectors(s_xss, o[1], o[2], c) :
        o \in {<<None, None>>, <<s_mysql, s_linux>>},
        c \in {None, <<>>, s_html, s_attr, s_js, <<" ","J","S"," ">>, <<" ">>,
               <<"s","v","g">>}}
    \cup {Selectors(s_sqli, d, o[1], o[2]) :
        d \in {None, <<>>, s_mysql, s_postgres, s_mssql,
               <<" ","M","a","r","i","a","D","B">>, s_postgresql, s_oracle},
        o \in {<<None, None>>, <<s_linux, s_html>>}}
    \cup {Selectors(s_cmd, o[1], s, o[2]) :
        s \in {None, <<>>, s_linux, s_windows, <<"W","i","n","3","2">>, <<"m","a","c">>},
        o \in {<<None, None>>, <<s_mysql, s_html>>}}
    \cup {Selectors(m, None, None, c) : m \in {s_demo, s_nope}, c \in {None, s_html}}
    \cup {Selectors(s_demo, s_mysql, o, None) : o \in {None, s_linux}}

\* The method arguments of a direct apply_encoding_to_all: the three methods,
\* one in another case with a blank, an unknown one.
EncodingInputs ==
    {s_url, s_base64, s_hex, <<" ","U","R","L">>, <<"r","o","t","1","3">>}

\* The technique arguments of a direct apply_obfuscation_to_all: the three
\* techniques and an unknown one.
ObfuscationInputs ==
    {s_comments, s_whitespace, s_mixed, <<"r","o","t","1","3">>}

TransformInputs ==
    EncodingInputs \cup ObfuscationInputs

s_out ==
    <<"o","u","t">>

\* The export arguments of a run: format, path, meta.
ExportInputs ==
    {[export_format |-> None, output_path |-> None, meta |-> NoMeta],
     [export_format |-> s_json, output_path |-> s_out, meta |-> NoMeta],
     [export_format |-> s_json, output_path |-> s_out, meta |-> [note |-> "n"]],
     [export_format |-> s_json, output_path |-> s_out, meta |-> [count |-> "n"]],
     [export_format |-> s_json, output_path |-> None, meta |-> NoMeta],
     [export_format |-> s_txt, output_path |-> s_out, meta |-> [note |-> "n"]],
     [export_format |-> <<"x","m","l">>, output_path |-> s_out, meta |-> NoMeta]}

RunArgs(sel, encoding, obfuscation, export) ==
    [module |-> sel.module, db_type |-> sel.db_type, os_type |-> sel.os_type,
     context |-> sel.context, encoding |-> encoding, obfuscation |-> obfuscation,
     export_format |-> export.export_format, output_path |-> export.output_path,
     meta |-> export.meta]

\* The caller's module with every pair of transforms; a built-in module with
\* every export; every module alone.
RunInputs ==
    {RunArgs(Selectors(s_demo, None, None, s_html), e, o, x) :
        e \in {None, s_url, s_base64, <<"r","o","t","1","3">>},
        o \in {None, s_comments, s_whitespace, s_mixed, <<"b","o","g","u","s">>},
        x \in {x \in ExportInputs : x.meta = NoMeta /\ x.output_path = s_out
                                       /\ x.export_format \in {s_json, s_txt}}
              \cup {x \in ExportInputs : x.export_format = None}}
    \cup {RunArgs(Selectors(s_xss, None, None, s_html), e, o, x) :
        e \in {None, s_hex}, o \in {None, s_whitespace}, x \in ExportInputs}
    \cup {RunArgs(s, None, None, CHOOSE x \in ExportInputs : x.export_format = None) :
        s \in {Selectors(s_xss, None, None, <<" ">>),
               Selectors(s_xss, None, None, <<" ","J","S"," ">>),
               Selectors(s_sqli, <<" ","M","a","r","i","a","D","B">>, None, None),
               Selectors(s_cmd, None, <<"W","i","n","3","2">>, None),
               Selectors(s_cmd, None, None, None),
               Selectors(s_nope, None, None, None)}}

(***************************************************************************)
(* Actions: one per call the caller can make                               *)
(***************************************************************************)

\* The caller's values after a call that left it holding items in heap h.
Holding(items, h) ==
    /\ held' = Relocate(items, Refs(items))
    /\ heap' = Collect(h, Refs(items))

\* PayloadTemplate(**fields).  A construction that yields a record is the
\* caller making its own input, and the calls are counted from there.  Neither the constructor nor anything done with the
\* records made by hand (cloning, the transforms, the exporters) reads the
\* registry, so these calls are explored with the registry as initialized.
Construct ==
    /\ Fresh
    /\ registry = InitialRegistry
    /\ \E fields \in ConstructInputs :
        \E r \in {ConstructAll(<<fields>>, heap)} :
            /\ outcome' = Outcome("construct", fields, r.res, <<>>)
            /\ Holding(IF r.res.raised THEN <<>> ELSE r.res.value, r.heap)
    /\ ncalls' = IF held' = <<>> THEN ncalls + 1 ELSE ncalls
    /\ UNCHANGED <<conc, registry, run, files, write>>

\* held[i].clone_with_updates(**kwargs); the caller keeps the original too.
CloneWithUpdates ==
    /\ FollowUp
    /\ \E i \in 1..Len(held), kwargs \in CloneUpdates :
        \E r \in {clone_with_updates(held[i], kwargs, heap)} :
            /\ outcome' = Outcome("clone", [i |-> i, kwargs |-> kwargs], r, <<>>)
            /\ Holding(IF r.raised THEN held ELSE Append(held, r.value), heap)
    /\ ncalls' = ncalls + 1
    /\ UNCHANGED <<conc, registry, run, files, write>>

\* held[i].disabled_by_default = value, a statement of the caller: the dataclass
\* is not frozen and defines no __setattr__, so the assignment stores the value
\* and runs no validation.
AssignDisabledByDefault ==
    /\ FollowUp
    /\ \E i \in 1..Len(held), value \in {"True", "False", "1"} :
        /\ outcome' = Outcome("assign", [i |-> i, value |-> value], Returned(None), <<>>)
        /\ Holding([held EXCEPT ![i].disabled_by_default = value], heap)
    /\ ncalls' = ncalls + 1
    /\ UNCHANGED <<conc, registry, run, files, write>>

\* get_registry().register(name, generator, requires_db=, requires_os=)
Register ==
    /\ Fresh
    /\ \E spec \in RegisterInputs :
        \E r \in {register(registry, spec.name, spec.generator,
                          spec.requires_db, spec.requires_os)} :
            /\ registry' = r.registry
            /\ outcome' = Outcome("register", spec, r.res, <<>>)
    /\ ncalls' = ncalls + 1
    /\ UNCHANGED <<conc, heap, held, run, files, write>>

\* get_registry().generate(module, db_type=, os_type=, context=)
RegistryGenerate ==
    /\ Fresh
    /\ \E a \in GenerateInputs :
        \E r \in {registry_generate(registry, a.module, a.db_type, a.os_type, a.context,
                                    heap)} :
            /\ outcome' = Outcome("registry.generate", a, r.res, r.calls)
            /\ Holding(IF r.res.raised THEN <<>> ELSE r.res.value, r.heap)
    /\ ncalls' = ncalls + 1
    /\ UNCHANGED <<conc, registry, run, files, write>>

\* The call that returns records like rec: its module with its selectors.
RepeatOf(rec) ==
    Selectors(rec.module, rec.db_type, rec.os_type, rec.context)

\* get_registry().generate(...) once more, for the module and selector of the
\* first record the caller holds, after whatever the caller did to its records;
\* the caller keeps what it held and the list returned.  It is the last call the
\* caller makes on what it holds, after at most MaxCalls others (a transform of
\* MaxHeld records leaves it holding twice as many).
RegistryGenerateAgain ==
    /\ run = Idle /\ write = NoWrite
    /\ held # <<>> /\ Len(held) <= 2 * MaxHeld
    /\ ncalls <= MaxCalls
    /\ \E a \in {RepeatOf(held[1])} :
        \E r \in {registry_generate(registry, a.module, a.db_type, a.os_type, a.context,
                                    heap)} :
            /\ outcome' = [op |-> "registry.generate again", args |-> a, done |-> TRUE,
                           raised |-> r.res.raised, exc |-> r.res.exc,
                           invoked |-> r.calls, kept |-> Len(held)]
            /\ Holding(IF r.res.raised THEN held ELSE held \o r.res.value, r.heap)
    /\ ncalls' = MaxCalls + 1
    /\ UNCHANGED <<conc, registry, run, files, write>>

\* PayloadPipeline().generate(module, db_type=, os_type=, context=)
PipelineGenerate ==
    /\ Fresh
    /\ \E a \in GenerateInputs :
        \E r \in {pipeline_generate(registry, a.module, a.db_type, a.os_type, a.context,
                                    heap)} :
            /\ outcome' = Outcome("pipeline.generate", a, r.res, r.calls)
            /\ Holding(IF r.res.raised THEN <<>> ELSE r.res.value, r.heap)
    /\ ncalls' = ncalls + 1
    /\ UNCHANGED <<conc, registry, run, files, write>>

\* PayloadPipeline().apply_encoding_to_all(held, method); the caller keeps the
\* list it passed and, when the call returns, the list it got.
ApplyEncodingToAll ==
    /\ FollowUp
    /\ \E method \in EncodingInputs :
        \E r \in {apply_encoding_to_all(held, method, heap)} :
            /\ outcome' = Outcome("apply_encoding_to_all", [method |-> method], r.res, <<>>)
            /\ Holding(IF r.res.raised THEN held ELSE held \o r.res.value, r.heap)
    /\ ncalls' = ncalls + 1
    /\ UNCHANGED <<conc, registry, run, files, write>>

\* PayloadPipeline().apply_obfuscation_to_all(held, technique)
ApplyObfuscationToAll ==
    /\ FollowUp
    /\ \E technique \in ObfuscationInputs :
        \E r \in {apply_obfuscation_to_all(held, technique, heap)} :
            /\ outcome' = Outcome("apply_obfuscation_to_all", [technique |-> technique],
                                  r.res, <<>>)
            /\ Holding(IF r.res.raised THEN held ELSE held \o r.res.value, r.heap)
    /\ ncalls' = ncalls + 1
    /\ UNCHANGED <<conc, registry, run, files, write>>

\* The texts given to obfuscate_payload: a marker candidate between two
\* neighbours.
ObfuscatorAffixes ==
    {<<>>, <<"x">>, <<"_">>, <<" ">>}

ObfuscatorCores ==
    {<<>>, <<"T","E","M","P","L","A","T","E">>, s_template,
     <<"t","e","m","P","l","a","t","e">>, <<"T","E","M","P","L","A","T">>,
     <<"<","<","X",">",">">>, <<"<","<","\n",">",">">>, <<"<","X",">",">">>}

ObfuscatorPayloads ==
    {p \o c \o s : p \in ObfuscatorAffixes, c \in ObfuscatorCores, s \in ObfuscatorAffixes}

ObfuscatorModes ==
    {s_comments, s_whitespace, s_mixed, <<" ","M","i","x","e","d"," ">>,
     <<"r","o","t","1","3">>}

\* obfuscate_payload(payload, mode=mode), called directly.  The obfuscator does
\* not read the registry, so the call is explored with the registry as
\* initialized.
ObfuscatePayload ==
    /\ Fresh
    /\ registry = InitialRegistry
    /\ \E payload \in ObfuscatorPayloads, mode \in ObfuscatorModes :
        \E r \in {obfuscate_payload(payload, mode)} :
            outcome' = [op |-> "obfuscate_payload",
                        args |-> [payload |-> payload, mode |-> mode],
                        done |-> TRUE, raised |-> r.raised, exc |-> r.exc,
                        value |-> IF r.raised THEN None ELSE r.value]
    /\ ncalls' = ncalls + 1
    /\ UNCHANGED <<conc, registry, heap, held, run, files, write>>

\* The caller drops the records it holds and removes the files written.
Drop ==
    /\ run = Idle
    /\ write = NoWrite
    /\ ncalls > 0 \/ held # <<>>
    /\ \A i \in DOMAIN conc : conc[i].pc = "done"
    /\ conc' = <<>>
    /\ heap' = <<>>
    /\ held' = <<>>
    /\ outcome' = NoOutcome
    /\ files' = NoFiles
    /\ ncalls' = 0
    /\ UNCHANGED <<registry, run, write>>

(***************************************************************************)
(* PayloadPipeline.run, one action per step of its body                    *)
(***************************************************************************)

\* A variant of the order of the steps with the two transforms exchanged.
StepAfterSwapped(pc) ==
    IF pc = "generate" THEN "obfuscate"
    ELSE IF pc = "obfuscate" THEN "encode"
    ELSE IF pc = "encode" THEN "export"
    ELSE "return"

\* The step that follows each step of the body of run.
StepAfter(pc) ==
    IF pc = "generate" THEN "encode"
    ELSE IF pc = "encode" THEN "obfuscate"
    ELSE IF pc = "obfuscate" THEN "export"
    ELSE "return"

\* run raises exc: the activation ends and the caller gets no value.
RunRaises(exc, h, invoked) ==
    /\ run' = Idle
    /\ outcome' = Outcome("run", run.args, Raised(exc), invoked)
    /\ held' = <<>>
    /\ heap' = <<>>

\* run goes on to the step after step, with items in heap h.
RunContinues(step, items, h) ==
    /\ run' = [run EXCEPT !.pc = StepAfter(step),
                          !.items = Relocate(items, Refs(items)),
                          !.trace = Append(@, step)]
    /\ heap' = Collect(h, Refs(items))
    /\ UNCHANGED <<held, outcome>>

\* The call itself and items = self.generate(...).  generated keeps the payloads
\* as generated, for comparison with what later steps make of them.
RunGenerate ==
    /\ Fresh
    /\ \E a \in RunInputs :
        \E r \in {pipeline_generate(registry, a.module, a.db_type, a.os_type, a.context,
                                    heap)} :
            IF r.res.raised
            THEN /\ run' = Idle
                 /\ outcome' = Outcome("run", a, r.res, r.calls)
                 /\ UNCHANGED <<held, heap>>
            ELSE /\ run' = [pc |-> StepAfter("generate"), args |-> a,
                            items |-> Relocate(r.res.value, Refs(r.res.value)),
                            generated |-> [k \in 1..Len(r.res.value) |->
                                              r.res.value[k].payload],
                            invoked |-> r.calls,
                            trace |-> <<"generate">>]
                 /\ heap' = Collect(r.heap, Refs(r.res.value))
                 /\ outcome' = [op |-> "run", args |-> a, done |-> FALSE, raised |-> FALSE,
                                exc |-> NoExc, invoked |-> r.calls]
                 /\ UNCHANGED held
    /\ ncalls' = ncalls + 1
    /\ UNCHANGED <<conc, registry, files, write>>

\* if encoding: items = self.apply_encoding_to_all(items, encoding)
RunEncode ==
    /\ run.pc = "encode"
    /\ IF ~Truthy(run.args.encoding) THEN RunContinues("encode", run.items, heap)
       ELSE \E r \in {apply_encoding_to_all(run.items, run.args.encoding, heap)} :
                IF r.res.raised THEN RunRaises(r.res.exc, r.heap, run.invoked)
                ELSE RunContinues("encode", r.res.value, r.heap)
    /\ UNCHANGED <<conc, registry, files, write, ncalls>>

\* if obfuscation: items = self.apply_obfuscation_to_all(items, obfuscation)
RunObfuscate ==
    /\ run.pc = "obfuscate"
    /\ IF ~Truthy(run.args.obfuscation) THEN RunContinues("obfuscate", run.items, heap)
       ELSE \E r \in {apply_obfuscation_to_all(run.items, run.args.obfuscation, heap)} :
                IF r.res.raised THEN RunRaises(r.res.exc, r.heap, run.invoked)
                ELSE RunContinues("obfuscate", r.res.value, r.heap)
    /\ UNCHANGED <<conc, registry, files, write, ncalls>>

\* A variant of the checks before the export that lets every request through.
export_request_unchecked(export_format, output_path) ==
    NoExc

\* The checks of run between `if export_format:` and the call of an exporter:
\* NoExc, or the PipelineError raised.
export_request(export_format, output_path) ==
    IF ~Truthy(output_path) THEN
        PipelineError("Output path required when export_format is set.", NoArgs, NoExc)
    ELSE IF export_format \notin {s_json, s_txt} THEN
        PipelineError("Unsupported export format '{export_format}'.",
                      [export_format |-> export_format], NoExc)
    ELSE NoExc

\* if export_format: ... exporter.export(items, output_path, meta=meta), up to
\* the exporter's call of _atomic_write_text; an error of the exporter leaves
\* run as it is, since run has no handler around the export.
RunExport ==
    /\ run.pc = "export"
    /\ write = NoWrite
    /\ IF ~Truthy(run.args.export_format) THEN
           RunContinues("export", run.items, heap) /\ UNCHANGED write
       ELSE \E refused \in {export_request(run.args.export_format, run.args.output_path)} :
           IF refused # NoExc THEN RunRaises(refused, heap, run.invoked) /\ UNCHANGED write
           ELSE \E d \in {export_document(run.args.export_format, run.items,
                                          run.args.meta, heap)} :
                IF d.raised THEN RunRaises(d.exc, heap, run.invoked) /\ UNCHANGED write
                ELSE /\ write' = BeginWrite(run.args.output_path, d.value,
                                            ErrorClassOf(run.args.export_format),
                                            "run", run.args)
                     /\ run' = [run EXCEPT !.items = items_after_export(
                                    ErrorClassOf(run.args.export_format), @)]
                     /\ UNCHANGED <<held, heap, outcome>>
    /\ UNCHANGED <<conc, registry, files, ncalls>>

\* return items
RunReturn ==
    /\ run.pc = "return"
    /\ run' = Idle
    /\ held' = run.items
    /\ outcome' = Outcome("run", run.args, Returned(run.items), run.invoked)
    /\ UNCHANGED <<conc, registry, heap, files, write, ncalls>>

(***************************************************************************)
(* The exporters called directly, and _atomic_write_text step by step      *)
(***************************************************************************)

s_d_out ==
    <<"d","/","o","u","t">>

\* The arguments of a direct export: format, path, meta.
ExportCallInputs ==
    {[export_format |-> s_json, output_path |-> s_out, meta |-> NoMeta],
     [export_format |-> s_txt, output_path |-> s_d_out, meta |-> NoMeta],
     [export_format |-> s_json, output_path |-> s_out, meta |-> [count |-> "n"]],
     [export_format |-> s_json, output_path |-> s_out, meta |-> [note |-> "n"]],
     [export_format |-> s_json, output_path |-> s_out, meta |-> [note |-> "<tuple>"]],
     [export_format |-> s_json, output_path |-> s_out, meta |-> [note |-> "<set>"]]}

\* What the caller may put in the place of one element of the list it exports:
\* an object that is no PayloadTemplate, or a copy of the record whose
\* disabled_by_default it has set to False or to 1.
Spoilings ==
    {"dict", "False", "1"}

Spoiled(items, i, how) ==
    [items EXCEPT ![i] = IF how = "dict" THEN ForeignItem
                         ELSE [@ EXCEPT !.disabled_by_default = how]]

\* export_json(items, output_path, meta=meta) / export_txt(...), up to the call
\* of _atomic_write_text.  items is the list the caller holds, as it is (i = 0)
\* or with element i spoiled.  An export is the last call the caller makes on
\* what it holds.  The exporters do not read the registry, so the call is
\* explored with the registry as initialized.
Export ==
    /\ FollowUp
    /\ registry = InitialRegistry
    /\ \E a \in ExportCallInputs, i \in 0..Len(held), how \in Spoilings :
        /\ i = 0 => how = "dict"
        /\ \E items \in {IF i = 0 THEN held ELSE Spoiled(held, i, how)} :
            \E d \in {export_document(a.export_format, items, a.meta, heap)} :
                IF d.raised
                THEN /\ outcome' = Outcome("export", [call |-> a, items |-> items], d, <<>>)
                     /\ UNCHANGED write
                ELSE /\ write' = BeginWrite(a.output_path, d.value,
                                            ErrorClassOf(a.export_format),
                                            "export", [call |-> a, items |-> items])
                     /\ outcome' = [op |-> "export", args |-> [call |-> a, items |-> items],
                                    done |-> FALSE, raised |-> FALSE, exc |-> NoExc,
                                    invoked |-> <<>>]
        /\ held' = IF i = 0 THEN items_after_export(ErrorClassOf(a.export_format), held)
                   ELSE held
    /\ ncalls' = MaxCalls
    /\ UNCHANGED <<conc, registry, heap, run, files>>

\* The frame of a step of _atomic_write_text: only the activation and the file
\* system change.
WriteFrame ==
    UNCHANGED <<conc, registry, heap, held, outcome, run, ncalls>>

\* _ensure_parent_dir(path), succeeding or failing.
WriteEnsureParentDir ==
    /\ write.pc = "mkdir"
    /\ \E ok \in BOOLEAN :
        \E r \in {ensure_parent_dir(write, files, ok)} :
            /\ write' = r.write
            /\ files' = r.files
    /\ WriteFrame

\* fd, tmp_path = tempfile.mkstemp(...), succeeding or failing.
WriteMkstemp ==
    /\ write.pc = "mkstemp"
    /\ \E ok \in BOOLEAN :
        \E r \in {mkstemp(write, files, ok)} :
            /\ write' = r.write
            /\ files' = r.files
    /\ WriteFrame

\* with os.fdopen(fd, "w", encoding="utf-8") as f:, succeeding or failing.
WriteFdopen ==
    /\ write.pc = "fdopen"
    /\ \E ok \in BOOLEAN :
        \E r \in {fdopen(write, files, ok)} :
            /\ write' = r.write
            /\ files' = r.files
    /\ WriteFrame

\* f.write(content), succeeding or failing.
WriteWrite ==
    /\ write.pc = "write"
    /\ \E ok \in BOOLEAN :
        \E r \in {f_write(write, files, ok)} :
            /\ write' = r.write
            /\ files' = r.files
    /\ WriteFrame

\* the end of the with statement, and fd = None, succeeding or failing.
WriteClose ==
    /\ write.pc = "close"
    /\ \E ok \in BOOLEAN :
        \E r \in {f_close(write, files, ok)} :
            /\ write' = r.write
            /\ files' = r.files
    /\ WriteFrame

\* os.replace(tmp_path, str(path)); tmp_path = None, succeeding or failing.
WriteReplace ==
    /\ write.pc = "replace"
    /\ \E ok \in BOOLEAN :
        \E r \in {os_replace(write, files, ok)} :
            /\ write' = r.write
            /\ files' = r.files
    /\ WriteFrame

\* the finally block, succeeding or failing.
WriteFinally ==
    /\ write.pc = "finally"
    /\ \E ok \in BOOLEAN :
        \E r \in {finally(write, files, ok)} :
            /\ write' = r.write
            /\ files' = r.files
    /\ WriteFrame

\* _atomic_write_text has left; the exporter returns the path or raises its
\* error, to run (which then goes on, or is left by the error) or to the caller.
WriteExit ==
    /\ write.pc = "exit"
    /\ write' = NoWrite
    /\ \E res \in {export_result(write)} :
        IF run # Idle
        THEN IF res.raised THEN RunRaises(res.exc, heap, run.invoked)
             ELSE RunContinues("export", run.items, heap)
        ELSE /\ outcome' = Outcome(write.op, write.args, res, <<>>)
             /\ UNCHANGED <<heap, held, run>>
    /\ UNCHANGED <<conc, registry, files, ncalls>>

\* The process is killed while _atomic_write_text is at work: its values and
\* its descriptors are gone, the file system stays as it is.
Interrupt ==
    /\ write # NoWrite
    /\ write' = NoWrite
    /\ run' = Idle
    /\ heap' = <<>>
    /\ held' = <<>>
    /\ outcome' = [op |-> "killed", done |-> TRUE, raised |-> FALSE, exc |-> NoExc]
    /\ files' = [files EXCEPT !.open = {}]
    /\ UNCHANGED <<conc, registry, ncalls>>
(***************************************************************************)
(* Two invocations of PayloadPipeline.run in two threads of one process.   *)
(* They share the registry, the heap and the file system; each has its own *)
(* activation of run and of _atomic_write_text.  A step of a thread is one *)
(* statement of the body of run or one operating-system call of            *)
(* _atomic_write_text.                                                     *)
(***************************************************************************)

\* The arguments of the invocations: a built-in module with one transform, with
\* two transforms of which the second refuses, and with an export in each format
\* to the same path.
ConcRunInputs ==
    {RunArgs(Selectors(s_xss, None, None, s_html), s_url, None,
             [export_format |-> None, output_path |-> None, meta |-> NoMeta]),
     RunArgs(Selectors(s_xss, None, None, s_html), s_base64, s_whitespace,
             [export_format |-> None, output_path |-> None, meta |-> NoMeta]),
     RunArgs(Selectors(s_xss, None, None, s_html), None, None,
             [export_format |-> s_json, output_path |-> s_out, meta |-> NoMeta]),
     RunArgs(Selectors(s_xss, None, None, s_html), None, s_whitespace,
             [export_format |-> s_txt, output_path |-> s_out, meta |-> NoMeta])}

\* The activation of run(**a) at its first statement.
ConcThread(a) ==
    [pc |-> "generate", args |-> a, items |-> <<>>, write |-> NoWrite,
     raised |-> FALSE, exc |-> NoExc]

\* The activation after run has returned or raised.
ConcFinish(t, res) ==
    [t EXCEPT !.pc = "done", !.raised = res.raised, !.exc = res.exc,
              !.items = IF res.raised THEN <<>> ELSE res.value, !.write = NoWrite]

\* Two threads are started, each calling run; the runs are explored with the
\* registry as initialized.
ConcStart ==
    /\ Fresh
    /\ conc = <<>>
    /\ registry = InitialRegistry
    /\ \E a1 \in ConcRunInputs, a2 \in ConcRunInputs :
        conc' = <<ConcThread(a1), ConcThread(a2)>>
    /\ outcome' = [op |-> "threads", done |-> FALSE, raised |-> FALSE, exc |-> NoExc]
    /\ ncalls' = ncalls + 1
    /\ UNCHANGED <<registry, heap, held, run, files, write>>

\* items = self.generate(...) in a thread
ConcRunGenerate ==
    /\ \E i \in DOMAIN conc :
        /\ conc[i].pc = "generate"
        /\ \E r \in {pipeline_generate(registry, conc[i].args.module, conc[i].args.db_type,
                                       conc[i].args.os_type, conc[i].args.context, heap)} :
            /\ conc' = [conc EXCEPT ![i] =
                            IF r.res.raised THEN ConcFinish(@, r.res)
                            ELSE [@ EXCEPT !.pc = StepAfter("generate"),
                                           !.items = r.res.value]]
            /\ heap' = r.heap
    /\ UNCHANGED <<registry, held, outcome, run, files, write, ncalls>>

\* if encoding: items = self.apply_encoding_to_all(items, encoding) in a thread
ConcRunEncode ==
    /\ \E i \in DOMAIN conc :
        /\ conc[i].pc = "encode"
        /\ IF ~Truthy(conc[i].args.encoding)
           THEN /\ conc' = [conc EXCEPT ![i].pc = StepAfter("encode")]
                /\ UNCHANGED heap
           ELSE \E r \in {apply_encoding_to_all(conc[i].items, conc[i].args.encoding, heap)} :
                /\ conc' = [conc EXCEPT ![i] =
                                IF r.res.raised THEN ConcFinish(@, r.res)
                                ELSE [@ EXCEPT !.pc = StepAfter("encode"),
                                               !.items = r.res.value]]
                /\ heap' = r.heap
    /\ UNCHANGED <<registry, held, outcome, run, files, write, ncalls>>

\* if obfuscation: items = self.apply_obfuscation_to_all(items, obfuscation) in
\* a thread
ConcRunObfuscate ==
    /\ \E i \in DOMAIN conc :
        /\ conc[i].pc = "obfuscate"
        /\ IF ~Truthy(conc[i].args.obfuscation)
           THEN /\ conc' = [conc EXCEPT ![i].pc = StepAfter("obfuscate")]
                /\ UNCHANGED heap
           ELSE \E r \in {apply_obfuscation_to_all(conc[i].items, conc[i].args.obfuscation,
                                                   heap)} :
                /\ conc' = [conc EXCEPT ![i] =
                                IF r.res.raised THEN ConcFinish(@, r.res)
                                ELSE [@ EXCEPT !.pc = StepAfter("obfuscate"),
                                               !.items = r.res.value]]
                /\ heap' = r.heap
    /\ UNCHANGED <<registry, held, outcome, run, files, write, ncalls>>

\* if export_format: ... exporter.export(...) in a thread, up to the exporter's
\* call of _atomic_write_text
ConcRunExport ==
    /\ \E i \in DOMAIN conc :
        /\ conc[i].pc = "export"
        /\ IF ~Truthy(conc[i].args.export_format)
           THEN conc' = [conc EXCEPT ![i].pc = StepAfter("export")]
           ELSE \E refused \in {export_request(conc[i].args.export_format,
                                               conc[i].args.output_path)} :
               IF refused # NoExc
               THEN conc' = [conc EXCEPT ![i] = ConcFinish(@, Raised(refused))]
               ELSE \E d \in {export_document(conc[i].args.export_format, conc[i].items,
                                              conc[i].args.meta, heap)} :
                   conc' = [conc EXCEPT ![i] =
                               IF d.raised THEN ConcFinish(@, d)
                               ELSE [@ EXCEPT !.pc = "write",
                                              !.items = items_after_export(
                                                  ErrorClassOf(conc[i].args.export_format),
                                                  conc[i].items),
                                              !.write = BeginWrite(
                                                  conc[i].args.output_path, d.value,
                                                  ErrorClassOf(conc[i].args.export_format),
                                                  "run", conc[i].args)]]
    /\ UNCHANGED <<registry, heap, held, outcome, run, files, write, ncalls>>

\* _ensure_parent_dir(path) in a thread
ConcWriteEnsureParentDir ==
    /\ \E i \in DOMAIN conc, ok \in BOOLEAN :
        /\ conc[i].write.pc = "mkdir"
        /\ \E r \in {ensure_parent_dir(conc[i].write, files, ok)} :
            /\ conc' = [conc EXCEPT ![i].write = r.write]
            /\ files' = r.files
    /\ UNCHANGED <<registry, heap, held, outcome, run, write, ncalls>>

\* fd, tmp_path = tempfile.mkstemp(...) in a thread
ConcWriteMkstemp ==
    /\ \E i \in DOMAIN conc, ok \in BOOLEAN :
        /\ conc[i].write.pc = "mkstemp"
        /\ \E r \in {mkstemp(conc[i].write, files, ok)} :
            /\ conc' = [conc EXCEPT ![i].write = r.write]
            /\ files' = r.files
    /\ UNCHANGED <<registry, heap, held, outcome, run, write, ncalls>>

\* with os.fdopen(fd, "w", encoding="utf-8") as f: in a thread
ConcWriteFdopen ==
    /\ \E i \in DOMAIN conc, ok \in BOOLEAN :
        /\ conc[i].write.pc = "fdopen"
        /\ \E r \in {fdopen(conc[i].write, files, ok)} :
            /\ conc' = [conc EXCEPT ![i].write = r.write]
            /\ files' = r.files
    /\ UNCHANGED <<registry, heap, held, outcome, run, write, ncalls>>

\* f.write(content) in a thread
ConcWriteWrite ==
    /\ \E i \in DOMAIN conc, ok \in BOOLEAN :
        /\ conc[i].write.pc = "write"
        /\ \E r \in {f_write(conc[i].write, files, ok)} :
            /\ conc' = [conc EXCEPT ![i].write = r.write]
            /\ files' = r.files
    /\ UNCHANGED <<registry, heap, held, outcome, run, write, ncalls>>

\* the end of the with statement in a thread
ConcWriteClose ==
    /\ \E i \in DOMAIN conc, ok \in BOOLEAN :
        /\ conc[i].write.pc = "close"
        /\ \E r \in {f_close(conc[i].write, files, ok)} :
            /\ conc' = [conc EXCEPT ![i].write = r.write]
            /\ files' = r.files
    /\ UNCHANGED <<registry, heap, held, outcome, run, write, ncalls>>

\* os.replace(tmp_path, str(path)) in a thread
ConcWriteReplace ==
    /\ \E i \in DOMAIN conc, ok \in BOOLEAN :
        /\ conc[i].write.pc = "replace"
        /\ \E r \in {os_replace(conc[i].write, files, ok)} :
            /\ conc' = [conc EXCEPT ![i].write = r.write]
            /\ files' = r.files
    /\ UNCHANGED <<registry, heap, held, outcome, run, write, ncalls>>

\* the finally block in a thread
ConcWriteFinally ==
    /\ \E i \in DOMAIN conc, ok \in BOOLEAN :
        /\ conc[i].write.pc = "finally"
        /\ \E r \in {finally(conc[i].write, files, ok)} :
            /\ conc' = [conc EXCEPT ![i].write = r.write]
            /\ files' = r.files
    /\ UNCHANGED <<registry, heap, held, outcome, run, write, ncalls>>

\* _atomic_write_text has left in a thread: the exporter returns and run goes
\* on, or the exporter's error leaves run.
ConcWriteExit ==
    /\ \E i \in DOMAIN conc :
        /\ conc[i].write.pc = "exit"
        /\ \E res \in {export_result(conc[i].write)} :
            conc' = [conc EXCEPT ![i] =
                        IF res.raised THEN ConcFinish(@, res)
                        ELSE [@ EXCEPT !.pc = StepAfter("export"), !.write = NoWrite]]
    /\ UNCHANGED <<registry, heap, held, outcome, run, files, write, ncalls>>

\* return items in a thread
ConcRunReturn ==
    /\ \E i \in DOMAIN conc :
        /\ conc[i].pc = "return"
        /\ conc' = [conc EXCEPT ![i] = ConcFinish(@, Returned(@.items))]
    /\ UNCHANGED <<registry, heap, held, outcome, run, files, write, ncalls>>

\* A step of run in a thread.
ConcRun ==
    \/ ConcRunGenerate
    \/ ConcRunEncode
    \/ ConcRunObfuscate
    \/ ConcRunExport
    \/ ConcRunReturn

\* A step of _atomic_write_text in a thread.
ConcWrite ==
    \/ ConcWriteEnsureParentDir
    \/ ConcWriteMkstemp
    \/ ConcWriteFdopen
    \/ ConcWriteWrite
    \/ ConcWriteClose
    \/ ConcWriteReplace
    \/ ConcWriteFinally
    \/ ConcWriteExit


(***************************************************************************)
(* cli.py: main.  argv is the namespace argparse hands over; the choices   *)
(* of the parser keep module, selectors, transforms and export format to   *)
(* the listed words.  --meta is a sequence of pairs or None.               *)
(***************************************************************************)

CLIError(msg, args) ==
    Exc("CLIError", msg, args)

s_samples ==
    <<"s","a","m","p","l","e","s">>

s_sample_payloads ==
    <<"s","a","m","p","l","e","_","p","a","y","l","o","a","d","s",".">>

\* str(Path("samples") / f"sample_payloads.{ext}")
default_output_path(export_format) ==
    s_samples \o <<"/">> \o s_sample_payloads \o Lower(export_format)

\* The dict keys the model has names for, with their characters.
MetaKeyChars ==
    [note |-> <<"n","o","t","e">>, count |-> <<"c","o","u","n","t">>]

\* The position of the first "=" of pair, 0 when it has none.
FirstEquals(pair) ==
    LET at == {k \in 1..Len(pair) : pair[k] = "="}
    IN  IF at = {} THEN 0 ELSE CHOOSE k \in at : \A j \in at : k <= j

\* _parse_meta(meta_args): the dict of the pairs, each split at its first "="
\* with key and value stripped; None for no pairs.
RECURSIVE parse_meta_from(_, _)
parse_meta_from(meta_args, meta) ==
    IF meta_args = <<>> THEN Returned(meta)
    ELSE LET pair == Head(meta_args)
             eq == FirstEquals(pair)
             key == Strip(SubSeq(pair, 1, eq - 1))
             value == Strip(SubSeq(pair, eq + 1, Len(pair)))
         IN  IF eq = 0 THEN
                 Raised(CLIError("Invalid meta '{pair}'. Expected key=value.", [pair |-> pair]))
             ELSE IF key = <<>> THEN
                 Raised(CLIError("Invalid meta '{pair}'. Key must be non-empty.",
                                 [pair |-> pair]))
             ELSE parse_meta_from(Tail(meta_args),
                     Put(meta, CHOOSE k \in DOMAIN MetaKeyChars : MetaKeyChars[k] = key,
                         value))

parse_meta(meta_args) ==
    IF meta_args = None \/ meta_args = <<>> THEN Returned(NoMeta)
    ELSE parse_meta_from(meta_args, NoMeta)

\* _enforce_selectors: NoExc, or the CLIError raised.
enforce_selectors(module, context, db, os_type) ==
    IF module = s_xss /\ ~Truthy(context) THEN
        CLIError("Module 'xss' requires --context {html,attr,js}.", NoArgs)
    ELSE IF module = s_sqli /\ ~Truthy(db) THEN
        CLIError("Module 'sqli' requires --db {mysql,postgres,mssql}.", NoArgs)
    ELSE IF module = s_cmd /\ ~Truthy(os_type) THEN
        CLIError("Module 'cmd' requires --os {linux,windows}.", NoArgs)
    ELSE NoExc

\* main from its try to the call of run_pipeline: the keyword arguments of the
\* call, or the CLIError raised before it.  argv rides along with them.
main_request(argv) ==
    LET refused == enforce_selectors(argv.module, argv.context, argv.db, argv.os)
        meta_dict == parse_meta(argv.meta)
        output_path == IF Truthy(argv.export) /\ ~Truthy(argv.output)
                       THEN default_output_path(argv.export) ELSE argv.output
    IN  IF refused # NoExc THEN Raised(refused)
        ELSE IF meta_dict.raised THEN meta_dict
        ELSE Returned([module |-> argv.module, db_type |-> argv.db, os_type |-> argv.os,
                       context |-> argv.context, encoding |-> argv.encode,
                       obfuscation |-> argv.obfuscate, export_format |-> argv.export,
                       output_path |-> output_path, meta |-> meta_dict.value,
                       argv |-> argv])

\* A variant of the except clauses of main in which only CLIError and
\* PipelineError make a failure.
main_exit_code_lenient(res) ==
    IF ~res.raised THEN 0
    ELSE IF res.exc.type \in {"CLIError", "PipelineError"} THEN 1
    ELSE 0

\* The except clauses of main and its return 0.
main_exit_code(res) ==
    IF ~res.raised THEN 0
    ELSE IF res.exc.type \in {"CLIError", "PipelineError"} THEN 1
    ELSE IF res.exc.type = "KeyboardInterrupt" THEN 130
    ELSE 2

\* main returns: what it returned, whether it had called run_pipeline, and how
\* the statements under its try ended.
MainOutcome(argv, ran, res) ==
    [op |-> "main", args |-> argv, done |-> TRUE, raised |-> FALSE, exc |-> NoExc,
     code |-> main_exit_code(res), ran |-> ran, error |-> res.exc]

Argv(module, context, db, os_type, encode, obfuscate, export, output, meta) ==
    [module |-> module, context |-> context, db |-> db, os |-> os_type,
     encode |-> encode, obfuscate |-> obfuscate, export |-> export, output |-> output,
     meta |-> meta]

CliInputs ==
    {Argv(s_xss, s_html, None, None, None, None, None, None, None),
     Argv(s_xss, None, None, None, None, None, None, None, None),
     Argv(s_sqli, None, None, None, None, None, None, None, None),
     Argv(s_cmd, None, None, None, None, None, None, None, None),
     Argv(s_sqli, s_html, s_mysql, None, None, None, None, None, None),
     Argv(s_xss, s_html, None, None, s_base64, s_comments, None, None, None),
     Argv(s_xss, s_html, None, None, None, None, s_json, s_out, None),
     Argv(s_xss, s_html, None, None, None, None, s_txt, None, None),
     Argv(s_xss, s_html, None, None, None, None, s_json, s_out,
          << <<" ","n","o","t","e"," ","="," ","n"," ">> >>),
     Argv(s_xss, s_html, None, None, None, None, s_json, s_out,
          << <<"c","o","u","n","t","=","1">> >>),
     Argv(s_xss, s_html, None, None, None, None, s_json, s_out, << <<"b","a","d">> >>),
     Argv(s_xss, s_html, None, None, None, None, None, None, << <<"=","v">> >>)}

\* main(argv) up to the first statement of run_pipeline's body: it returns 1 on
\* a CLIError, or PayloadPipeline().run(...) is under way with items generated.
MainRun ==
    /\ Fresh
    /\ registry = InitialRegistry
    /\ \E argv \in CliInputs :
        \E q \in {main_request(argv)} :
            IF q.raised
            THEN /\ outcome' = MainOutcome(argv, FALSE, q)
                 /\ UNCHANGED <<run, held, heap>>
            ELSE \E r \in {pipeline_generate(registry, q.value.module, q.value.db_type,
                                             q.value.os_type, q.value.context, heap)} :
                IF r.res.raised
                THEN /\ run' = Idle
                     /\ outcome' = Outcome("run", q.value, r.res, r.calls)
                     /\ UNCHANGED <<held, heap>>
                ELSE /\ run' = [pc |-> StepAfter("generate"), args |-> q.value,
                                items |-> Relocate(r.res.value, Refs(r.res.value)),
                                generated |-> [k \in 1..Len(r.res.value) |->
                                                  r.res.value[k].payload],
                                invoked |-> r.calls,
                                trace |-> <<"generate">>]
                     /\ heap' = Collect(r.heap, Refs(r.res.value))
                     /\ outcome' = [op |-> "run", args |-> q.value, done |-> FALSE,
                                    raised |-> FALSE, exc |-> NoExc, invoked |-> r.calls]
                     /\ UNCHANGED held
    /\ ncalls' = ncalls + 1
    /\ UNCHANGED <<conc, registry, files, write>>

\* Ctrl-C while the run main started is between two steps of its body: run has
\* no handler, so KeyboardInterrupt leaves it.
MainInterrupt ==
    /\ run # Idle /\ write = NoWrite
    /\ "argv" \in DOMAIN run.args
    /\ RunRaises(Exc("KeyboardInterrupt", "", NoArgs), heap, run.invoked)
    /\ UNCHANGED <<conc, registry, files, write, ncalls>>

\* run_pipeline has returned or raised: main prints and returns 0, or one of
\* its except clauses returns 1, 130 or 2.  The process ends with its records.
MainExit ==
    /\ run = Idle /\ write = NoWrite
    /\ outcome.op = "run" /\ outcome.done
    /\ "argv" \in DOMAIN outcome.args
    /\ outcome' = MainOutcome(outcome.args.argv, TRUE, outcome)
    /\ held' = <<>>
    /\ heap' = <<>>
    /\ UNCHANGED <<conc, registry, run, files, write, ncalls>>

(***************************************************************************)
(* Specifications                                                          *)
(***************************************************************************)

\* Every call into the program; what a caller does to a record without calling
\* the program is explored under SpecAssign.
Next ==
    \/ Construct
    \/ CloneWithUpdates
    \/ Register
    \/ RegistryGenerate
    \/ RegistryGenerateAgain
    \/ PipelineGenerate
    \/ ApplyEncodingToAll
    \/ ApplyObfuscationToAll
    \/ ObfuscatePayload
    \/ RunGenerate
    \/ RunEncode
    \/ RunObfuscate
    \/ RunExport
    \/ RunReturn
    \/ Export
    \/ WriteEnsureParentDir
    \/ WriteMkstemp
    \/ WriteFdopen
    \/ WriteWrite
    \/ WriteClose
    \/ WriteReplace
    \/ WriteFinally
    \/ WriteExit
    \/ Interrupt
    \/ MainRun
    \/ MainInterrupt
    \/ MainExit
    \/ ConcStart
    \/ ConcRun
    \/ ConcWrite
    \/ Drop

\* _atomic_write_text from its first statement to its exit.
AtomicWrite ==
    \/ WriteEnsureParentDir
    \/ WriteMkstemp
    \/ WriteFdopen
    \/ WriteWrite
    \/ WriteClose
    \/ WriteReplace
    \/ WriteFinally
    \/ WriteExit

\* Every call into the program.
Spec ==
    Init /\ [][Next]_vars

\* Every operation that hands records to its caller: construction, cloning,
\* generation by the registry and by the pipeline, the two transforms and run.
SpecProducers ==
    Init /\ [][\/ Construct
               \/ CloneWithUpdates
               \/ Register
               \/ RegistryGenerate
               \/ PipelineGenerate
               \/ ApplyEncodingToAll
               \/ ApplyObfuscationToAll
               \/ RunGenerate
               \/ RunEncode
               \/ RunObfuscate
               \/ RunExport
               \/ RunReturn
               \/ AtomicWrite
               \/ Drop]_vars

\* The record model alone: construction and cloning.
SpecRecord ==
    Init /\ [][Construct \/ CloneWithUpdates \/ Drop]_vars

\* The registry alone: registration and generation.
SpecRegistry ==
    Init /\ [][Register \/ RegistryGenerate \/ Drop]_vars

\* The pipeline over the registry: generation and runs.
SpecPipeline ==
    Init /\ [][\/ Register
               \/ PipelineGenerate
               \/ RunGenerate
               \/ RunEncode
               \/ RunObfuscate
               \/ RunExport
               \/ RunReturn
               \/ AtomicWrite
               \/ Drop]_vars

\* The transforms over records the caller constructs and clones.
SpecTransform ==
    Init /\ [][\/ Construct
               \/ CloneWithUpdates
               \/ ApplyEncodingToAll
               \/ ApplyObfuscationToAll
               \/ Drop]_vars

\* The exporters: called by a run or directly, on records the built-in modules
\* generate or records the caller constructs and clones.
SpecExport ==
    Init /\ [][\/ Construct
               \/ CloneWithUpdates
               \/ RunGenerate
               \/ RunEncode
               \/ RunObfuscate
               \/ RunExport
               \/ RunReturn
               \/ Export
               \/ AtomicWrite
               \/ Interrupt
               \/ Drop]_vars

\* The obfuscator called directly.
SpecObfuscator ==
    Init /\ [][ObfuscatePayload \/ Drop]_vars

\* The registry and what a caller does to the records it returned.
SpecGenerate ==
    Init /\ [][\/ Register
               \/ RegistryGenerate
               \/ CloneWithUpdates
               \/ ApplyEncodingToAll
               \/ ApplyObfuscationToAll
               \/ RegistryGenerateAgain
               \/ Drop]_vars

\* The record model and a caller that assigns to the flag of a record it holds.
SpecAssign ==
    Init /\ [][Construct \/ CloneWithUpdates \/ AssignDisabledByDefault \/ Drop]_vars

\* The command line: main, the run it starts and the export of that run.
SpecCli ==
    Init /\ [][\/ MainRun
               \/ RunEncode
               \/ RunObfuscate
               \/ RunExport
               \/ RunReturn
               \/ AtomicWrite
               \/ MainInterrupt
               \/ MainExit
               \/ Drop]_vars

\* Two run invocations in two threads.
SpecConcurrent ==
    Init /\ [][ConcStart \/ ConcRun \/ ConcWrite \/ Drop]_vars


(***************************************************************************)
(* Properties                                                              *)
(***************************************************************************)

\* Every record the caller holds or a run in progress carries.
AllRecords ==
    {held[i] : i \in 1..Len(held)}
    \cup (IF run = Idle THEN {} ELSE {run.items[i] : i \in 1..Len(run.items)})

\* The last step was the call op: a call is the only step that sets the outcome
\* and counts itself.
Called(op) ==
    outcome'.op = op /\ outcome'.done /\ (ncalls' = ncalls + 1 \/ run # Idle)

C1_FlagOfEveryRecord ==
    /\ \A r \in AllRecords : r.disabled_by_default = "True"
    /\ (outcome.op = "construct" /\ outcome.args.disabled_by_default # "True")
        => /\ outcome.raised
           /\ outcome.exc.type = "PayloadValidationError"
           /\ held = <<>>

C1_CloneYieldsNothing ==
    (/\ Called("clone")
     /\ "disabled_by_default" \in DOMAIN outcome'.args.kwargs
     /\ outcome'.args.kwargs.disabled_by_default # "True")
    => /\ outcome'.raised
       /\ outcome'.exc.type = "PayloadValidationError"
       /\ held' = held

\* C1: every record that comes out of construction, clone_with_updates,
\* ModuleRegistry.generate, apply_encoding_to_all, apply_obfuscation_to_all or run
\* has disabled_by_default True; constructing or cloning with any other value of
\* the field raises PayloadValidationError and yields no record (the caller holds
\* what it held before).
C1_DisabledByDefaultAlwaysTrue ==
    []C1_FlagOfEveryRecord /\ [][C1_CloneYieldsNothing]_vars

\* A clone that asked for the flag False was refused, and the caller still holds
\* the record it cloned.
C1_Witness ==
    /\ outcome.op = "clone"
    /\ outcome.args.kwargs = [disabled_by_default |-> "False"]
    /\ outcome.raised
    /\ held # <<>>

\* The six forbidden combinations of a module with a selector of another module.
ForbiddenCombination(f) ==
    \/ f.module = s_xss /\ (f.db_type # None \/ f.os_type # None)
    \/ f.module = s_sqli /\ (f.context # None \/ f.os_type # None)
    \/ f.module = s_cmd /\ (f.context # None \/ f.db_type # None)

\* Exactly the selector of the record's module is non-null.
OwnSelectorOnly(r) ==
    /\ r.module = s_xss => r.context # None /\ r.db_type = None /\ r.os_type = None
    /\ r.module = s_sqli => r.db_type # None /\ r.context = None /\ r.os_type = None
    /\ r.module = s_cmd => r.os_type # None /\ r.context = None /\ r.db_type = None

\* C2: construction fails with PayloadValidationError for each of the six
\* forbidden module/selector combinations, so every constructed record has
\* exactly the selector of its module non-null and the other two None.
C2_SelectorExclusivity ==
    /\ (outcome.op = "construct" /\ ForbiddenCombination(outcome.args))
        => outcome.raised /\ outcome.exc.type = "PayloadValidationError" /\ held = <<>>
    /\ \A r \in AllRecords : OwnSelectorOnly(r)

\* An xss record given an os_type was refused for that reason.
C2_Witness ==
    /\ outcome.op = "construct"
    /\ outcome.args.module = s_xss
    /\ outcome.args.context = s_html
    /\ outcome.args.db_type = None
    /\ outcome.args.os_type = s_linux
    /\ outcome.raised
    /\ outcome.exc.msg = "os_type must be None for module 'xss'."

\* The invariants of a record, numbered in the order the rules are checked, over
\* the field values given to the constructor.
InvariantHolds(n, f) ==
    IF n = 1 THEN f.module \in {s_xss, s_sqli, s_cmd}
    ELSE IF n = 2 THEN IsStr(f.title) /\ Strip(f.title) # <<>>
    ELSE IF n = 3 THEN IsStr(f.payload) /\ Strip(f.payload) # <<>>
    ELSE IF n = 4 THEN f.risk_level \in {s_low, s_medium, s_high}
    ELSE IF n = 5 THEN f.disabled_by_default = "True"
    ELSE IF n = 6 THEN /\ f.tags # NonListValue
                       /\ \A i \in 1..Len(f.tags) : IsStr(f.tags[i])
    ELSE IF n = 7 THEN
        /\ ~ForbiddenCombination(f)
        /\ f.module = s_xss => f.context \in {s_html, s_attr, s_js}
        /\ f.module = s_sqli => f.db_type \in {s_mysql, s_postgres, s_mssql}
        /\ f.module = s_cmd => f.os_type \in {s_linux, s_windows}
    ELSE f.created_at = "aware"

Rules ==
    1..8

\* The rule a validation message speaks of.
RuleOfMessage(msg) ==
    IF msg = "Invalid module '{self.module}'. Must be one of ['cmd', 'sqli', 'xss']" THEN 1
    ELSE IF msg = "title cannot be empty." THEN 2
    ELSE IF msg = "payload cannot be empty." THEN 3
    ELSE IF msg = "Invalid risk_level '{self.risk_level}'. Must be one of ['high', 'low', 'medium']"
        THEN 4
    ELSE IF msg = "disabled_by_default must remain True for safety." THEN 5
    ELSE IF msg \in {"tags must be a list of strings.", "each tag must be a string."} THEN 6
    ELSE IF msg = "created_at must be timezone-aware (UTC)." THEN 8
    ELSE 7

\* C3: construction succeeds if and only if all the invariants hold (title and
\* payload counted apart, which makes eight rules of the seven); when one is
\* violated it raises PayloadValidationError whose message is that of the first
\* violated rule in the check order.  Field values have their declared types,
\* except title, payload and tags, whose type _validate tests.
C3_ConstructIffInvariants ==
    outcome.op = "construct" =>
        LET violated == {n \in Rules : ~InvariantHolds(n, outcome.args)}
        IN  /\ outcome.raised <=> violated # {}
            /\ ~outcome.raised => Len(held) = 1
            /\ outcome.raised =>
                /\ outcome.exc.type = "PayloadValidationError"
                /\ RuleOfMessage(outcome.exc.msg) = CHOOSE n \in violated :
                                                        \A m \in violated : n <= m

\* A construction that violates two rules (risk_level and created_at) reported
\* the earlier one.
C3_Witness ==
    /\ outcome.op = "construct"
    /\ InvariantHolds(1, outcome.args) /\ InvariantHolds(2, outcome.args)
    /\ InvariantHolds(3, outcome.args)
    /\ ~InvariantHolds(4, outcome.args)
    /\ ~InvariantHolds(8, outcome.args)
    /\ outcome.raised
    /\ RuleOfMessage(outcome.exc.msg) = 4

\* The last call was ModuleRegistry.generate, with these arguments.
Generated ==
    outcome.op = "registry.generate"

\* The names a selector value may stand for: the canonical names and the
\* synonyms mariadb, postgresql and win32.
CanonicalName(name) ==
    IF name = s_mariadb THEN s_mysql
    ELSE IF name = s_postgresql THEN s_postgres
    ELSE IF name = s_win32 THEN s_windows
    ELSE name

\* The selector value a request gives for its module.
OwnSelector(a) ==
    IF a.module = s_xss THEN a.context
    ELSE IF a.module = s_sqli THEN a.db_type
    ELSE a.os_type

\* The selector value a request asks for, after alias normalisation: trimmed, in
\* lower case, a synonym replaced by the canonical name.
RequestedSelector(a) ==
    CanonicalName(Lower(Strip(OwnSelector(a))))

\* The request names a built-in module with a valid value of its selector.
ValidRequest(a) ==
    /\ a.module \in {s_xss, s_sqli, s_cmd}
    /\ IsStr(OwnSelector(a))
    /\ a.module = s_xss => RequestedSelector(a) \in {s_html, s_attr, s_js}
    /\ a.module = s_sqli => RequestedSelector(a) \in {s_mysql, s_postgres, s_mssql}
    /\ a.module = s_cmd => RequestedSelector(a) \in {s_linux, s_windows}

\* C4: for every built-in module and every valid selector value for it,
\* ModuleRegistry.generate returns a non-empty list in which every record has the
\* requested module and disabled_by_default True.
C4_GenerateNonEmptyOfModule ==
    (Generated /\ ValidRequest(outcome.args)) =>
        /\ ~outcome.raised
        /\ held # <<>>
        /\ \A i \in 1..Len(held) :
            /\ held[i].module = outcome.args.module
            /\ held[i].disabled_by_default = "True"

\* generate("xss", context=" JS ") returned the three js templates.
C4_Witness ==
    /\ Generated
    /\ outcome.args.module = s_xss
    /\ outcome.args.context = <<" ","J","S"," ">>
    /\ ~outcome.raised
    /\ Len(held) = 3

SelectorOf(r) ==
    IF r.module = s_xss THEN r.context
    ELSE IF r.module = s_sqli THEN r.db_type
    ELSE r.os_type

\* C5, as stated: whenever ModuleRegistry.generate accepts the selector of a
\* built-in module, every returned record carries exactly the requested selector
\* after alias normalisation.  The code violates it: generate("xss",
\* context=" ") is accepted and returns the records of all three contexts.
C5_ReturnedCarryRequestedSelector ==
    (Generated /\ ~outcome.raised /\ outcome.args.module \in {s_xss, s_sqli, s_cmd}) =>
        \A i \in 1..Len(held) : SelectorOf(held[i]) = RequestedSelector(outcome.args)

\* C6: ModuleRegistry.generate raises RegistryError, without invoking the
\* generator, when xss is requested with no context, sqli with no db_type or cmd
\* with no os_type (None or the empty string); the three errors are distinct, each
\* naming the missing selector.
C6_MissingSelectorRejected ==
    LET a == outcome.args
        rejected(msg, module) ==
            /\ outcome.raised
            /\ outcome.exc.type = "RegistryError"
            /\ outcome.exc.msg = msg
            /\ outcome.exc.msg = "Module 'xss' requires 'context' selector."
                \/ outcome.exc.args.module_name = module
            /\ outcome.invoked = <<>>
            /\ held = <<>>
    IN  Generated =>
        /\ (a.module = s_xss /\ a.context \in {None, <<>>})
            => rejected("Module 'xss' requires 'context' selector.", s_xss)
        /\ (a.module = s_sqli /\ a.db_type \in {None, <<>>})
            => rejected("Module '{module_name}' requires 'db_type' selector.", s_sqli)
        /\ (a.module = s_cmd /\ a.os_type \in {None, <<>>})
            => rejected("Module '{module_name}' requires 'os_type' selector.", s_cmd)

\* generate("xss") with no context was rejected although both other selectors
\* were given.
C6_Witness ==
    /\ Generated
    /\ outcome.args = Selectors(s_xss, s_mysql, s_linux, None)
    /\ outcome.raised
    /\ outcome.exc.msg = "Module 'xss' requires 'context' selector."
    /\ outcome.invoked = <<>>

C7_Step ==
    /\ \A n \in DOMAIN registry : n \in DOMAIN registry' /\ registry'[n] = registry[n]
    /\ (Called("register") /\ outcome'.args.name \in DOMAIN registry)
        => /\ outcome'.raised
           /\ outcome'.exc.type = "RegistryError"
           /\ registry' = registry

\* C7: register on a name already registered raises RegistryError and leaves the
\* registry unchanged; over any sequence of register and generate calls no step
\* changes or removes an entry, so the generator and flags of a name stay those of
\* its first registration.
C7_RegistrationOneShot ==
    [][C7_Step]_vars

\* A second registration of xss, with another generator, was refused and xss
\* still has its built-in generator.
C7_Witness ==
    /\ outcome.op = "register"
    /\ outcome.args.name = s_xss
    /\ outcome.args.generator = "returns_word_template"
    /\ outcome.raised
    /\ registry[s_xss].generator = "xss.generate_payloads"

\* The 0-based index of the first element of items that is no PayloadTemplate or
\* violates an invariant of the record.
FirstOffending(items, h) ==
    LET bad == {i \in 1..Len(items) :
                    items[i].cls # "PayloadTemplate" \/ validate(items[i], h) # NoExc}
    IN  IF bad = {} THEN -1 ELSE (CHOOSE i \in bad : \A j \in bad : i <= j) - 1

\* C8: once the generator has returned, ModuleRegistry.generate returns a result
\* only if the value is a list whose every element is a PayloadTemplate that
\* satisfies the invariants at that time; otherwise it raises an error naming the
\* module and, when the value is a list, the index of the first offending
\* element, and the caller gets no records.
C8_RevalidationOfGeneratorOutput ==
    (Generated /\ outcome.invoked # <<>>) =>
        LET call == outcome.invoked[1]
            g == CallGenerator(call.generator, call.kw, call.value, <<>>)
            v == g.res.value
            sound == v.is_list /\ FirstOffending(v.items, g.heap) = -1
        IN  ~g.res.raised =>
            /\ outcome.raised <=> ~sound
            /\ ~outcome.raised => held = v.items
            /\ outcome.raised =>
                /\ held = <<>>
                /\ outcome.exc.args.module_name = outcome.args.module
                /\ v.is_list => outcome.exc.args.i = FirstOffending(v.items, g.heap)

\* A list whose second element had its flag cleared after construction and whose
\* third is of another class was refused at index 1.
C8_Witness ==
    /\ Generated
    /\ outcome.args.module = s_demo
    /\ outcome.invoked # <<>>
    /\ outcome.invoked[1].generator = "returns_tampered"
    /\ outcome.raised
    /\ outcome.exc.type = "PayloadValidationError"
    /\ outcome.exc.args.i = 1

\* C9: PayloadPipeline.generate raises PipelineError, with the original exception
\* as its cause, for every failure of the registry call (unknown module, missing
\* selector, an exception of the generator, a re-validation failure); no
\* exception of another class escapes it.  The exceptions meant are those
\* derived from Exception, which all exceptions of the program are.
C9_GenerateWrapsEveryFailure ==
    outcome.op = "pipeline.generate" =>
        LET a == outcome.args
            r == registry_generate(registry, a.module, a.db_type, a.os_type, a.context, <<>>)
        IN  /\ outcome.raised <=> r.res.raised
            /\ outcome.raised =>
                /\ outcome.exc.type = "PipelineError"
                /\ outcome.exc.cause = r.res.exc
                /\ held = <<>>

\* The ValueError a generator raised for an unrecognised alias came out as the
\* cause of a PipelineError.
C9_Witness ==
    /\ outcome.op = "pipeline.generate"
    /\ outcome.args.module = s_xss
    /\ outcome.args.context = <<"s","v","g">>
    /\ outcome.raised
    /\ outcome.exc.type = "PipelineError"
    /\ outcome.exc.cause.type = "ValueError"

\* The steps of run in their order.
StepOrder ==
    <<"generate", "encode", "obfuscate", "export">>

\* What a payload as generated must have become once the transforms a run
\* requests are done: encoded if an encoding is requested, and the result of that
\* obfuscated if an obfuscation is requested.
Transformed(payload, a) ==
    LET encoded == IF Truthy(a.encoding) THEN encode_payload(payload, a.encoding).value
                   ELSE payload
    IN  IF Truthy(a.obfuscation) THEN obfuscate_payload(encoded, a.obfuscation).value
        ELSE encoded

\* C10: in PayloadPipeline.run the steps happen in the order generate, encoding,
\* obfuscation, export: the steps taken so far are always an initial part of that
\* order; when the export step is reached every record's payload is the generated
\* payload encoded and then obfuscated, as far as requested, never obfuscated and
\* then encoded; and no file is written before that.
C10_RunStepOrder ==
    run # Idle =>
        /\ Len(run.trace) <= Len(StepOrder)
        /\ run.trace = SubSeq(StepOrder, 1, Len(run.trace))
        /\ run.pc = (IF Len(run.trace) = Len(StepOrder) THEN "return"
                     ELSE StepOrder[Len(run.trace) + 1])
        /\ run.pc \in {"export", "return"} =>
            /\ Len(run.items) = Len(run.generated)
            /\ \A k \in 1..Len(run.items) :
                run.items[k].payload = Transformed(run.generated[k], run.args)
        /\ run.pc \in {"generate", "encode", "obfuscate"} => files = NoFiles

\* A run that requested url encoding and comment obfuscation stands before its
\* export step with both done: "TEMPLATE x" has become its url encoding with the
\* markers inserted.
C10_Witness ==
    /\ run # Idle
    /\ run.pc = "export"
    /\ run.args.encoding = s_url
    /\ run.args.obfuscation = s_comments
    /\ run.generated[1] = s_word_template
    /\ run.items[1].payload = comments(url_encode(s_word_template)).value
    /\ run.items[1].payload # url_encode(comments(s_word_template).value)

(***************************************************************************)
(* Claims on the transformation steps                                      *)
(***************************************************************************)

\* A record with its three lists by value, in heap h.
View(rec, h) ==
    to_json_safe(rec, h)

\* This step is a call of apply_encoding_to_all.
EncodingCall ==
    /\ run = Idle /\ ncalls' = ncalls + 1
    /\ outcome'.op = "apply_encoding_to_all"

\* This step is a call of apply_obfuscation_to_all.
ObfuscationCall ==
    /\ run = Idle /\ ncalls' = ncalls + 1
    /\ outcome'.op = "apply_obfuscation_to_all"

\* The records a successful transform call returned: the caller holds them after
\* the list it passed.
ReturnedByCall ==
    SubSeq(held', Len(held) + 1, Len(held'))

\* C11, over one call: a successful apply_encoding_to_all returns as many
\* records as it got, record i being input record i with the payload encoded and
\* with the encoding history the input record had before the call followed by
\* the method; likewise apply_obfuscation_to_all with the obfuscation history.
C11_Call ==
    /\ EncodingCall /\ ~outcome'.raised =>
        /\ Len(ReturnedByCall) = Len(held)
        /\ \A i \in 1..Len(held) :
            View(ReturnedByCall[i], heap') =
                [View(held[i], heap) EXCEPT
                    !.payload = encode_payload(held[i].payload, outcome'.args.method).value,
                    !.encoding_applied = Append(@, outcome'.args.method)]
    /\ ObfuscationCall /\ ~outcome'.raised =>
        /\ Len(ReturnedByCall) = Len(held)
        /\ \A i \in 1..Len(held) :
            View(ReturnedByCall[i], heap') =
                [View(held[i], heap) EXCEPT
                    !.payload = obfuscate_payload(held[i].payload,
                                                  outcome'.args.technique).value,
                    !.obfuscation_applied = Append(@, outcome'.args.technique)]

\* C11: on success apply_encoding_to_all / apply_obfuscation_to_all returns the
\* input records in their order, each with its payload transformed and with the
\* matching history it had before the call followed by the one applied name.
C11_TransformAppendsOneName ==
    [][C11_Call]_vars

\* C11, the consequence for run: a run with only encoding="base64" returns
\* records whose encoding history is ["base64"] and whose obfuscation history is
\* empty.
C11_RunBase64History ==
    /\ outcome.op = "run" /\ outcome.done /\ ~outcome.raised
    /\ outcome.args.encoding = s_base64 /\ ~Truthy(outcome.args.obfuscation)
    => \A k \in 1..Len(held) :
        /\ heap[held[k].encoding_applied] = <<s_base64>>
        /\ heap[held[k].obfuscation_applied] = <<>>

\* Whether the transform of this call fails on some input record.
TransformFails ==
    \/ EncodingCall /\ \E i \in 1..Len(held) :
            encode_payload(held[i].payload, outcome'.args.method).raised
    \/ ObfuscationCall /\ \E i \in 1..Len(held) :
            obfuscate_payload(held[i].payload, outcome'.args.technique).raised

\* Every record the caller passed is, by value, what it was before the step.
InputsKept ==
    /\ Len(held') >= Len(held)
    /\ \A i \in 1..Len(held) : View(held'[i], heap') = View(held[i], heap)

\* C12: when the transform fails on a record of the batch, at any position,
\* apply_encoding_to_all / apply_obfuscation_to_all raises PipelineError, returns
\* nothing, and leaves payload and both histories of every input record as they
\* were, the records before the failing one included.
C12_FailedBatchLeavesInputs ==
    [][TransformFails =>
        /\ outcome'.raised
        /\ outcome'.exc.type = "PipelineError"
        /\ Len(held') = Len(held)
        /\ InputsKept]_vars

\* A clone just made has no list object in common with the record it was made
\* from.
CloneSharesNoList ==
    outcome.op = "clone" /\ ~outcome.raised =>
        LET original == held[outcome.args.i]
            clone == held[Len(held)]
            lists(r) == {r.encoding_applied, r.obfuscation_applied, r.tags}
        IN  lists(original) \cap lists(clone) = {}

\* C13: a transformation step never changes its input (after a successful
\* apply_encoding_to_all / apply_obfuscation_to_all every input record has the
\* payload and the histories it had), and a clone made by clone_with_updates
\* shares no list field with its original.
C13_InputsNeverMutated ==
    /\ [](CloneSharesNoList)
    /\ [][(EncodingCall \/ ObfuscationCall) /\ ~outcome'.raised => InputsKept]_vars

(***************************************************************************)
(* Claims on the errors of run and on the exporters                        *)
(***************************************************************************)

\* C14: every failure of PayloadPipeline.run reaches the caller as a
\* PipelineError, raised from the original error when there is one (the two
\* PipelineErrors that run raises itself have none); no other exception type
\* leaves run.
C14_RunRaisesOnlyPipelineError ==
    outcome.op = "run" /\ outcome.done /\ outcome.raised =>
        /\ outcome.exc.type = "PipelineError"
        /\ outcome.exc.cause = NoExc =>
            outcome.exc.msg \in {"Output path required when export_format is set.",
                                 "Unsupported export format '{export_format}'."}

\* The position of the first element of items an exporter must refuse, 0 if
\* there is none.
Offending(items) ==
    LET bad == {i \in 1..Len(items) : \/ items[i].cls # "PayloadTemplate"
                                      \/ items[i].disabled_by_default # "True"}
    IN  IF bad = {} THEN 0 ELSE CHOOSE i \in bad : \A j \in bad : i <= j

\* This step is a direct call of export_json or export_txt.
ExportCall ==
    /\ run = Idle /\ write = NoWrite
    /\ outcome'.op = "export" /\ ncalls' # ncalls

\* C15: export_json and export_txt raise their error (JSONExportError /
\* TXTExportError) whenever an element of the input, at any position, is no
\* PayloadTemplate or has disabled_by_default other than True, and they do so
\* before anything is written: no file and no directory is created or changed,
\* no descriptor is opened and _atomic_write_text is not entered.
C15_OffendingElementRefusedBeforeWrite ==
    [][ExportCall /\ Offending(outcome'.args.items) # 0 =>
        /\ outcome'.done /\ outcome'.raised
        /\ outcome'.exc.type = ErrorClassOf(outcome'.args.call.export_format)
        /\ outcome'.exc.args = [i |-> Offending(outcome'.args.items) - 1]
        /\ write' = NoWrite
        /\ files' = files]_vars

\* export_txt to "d/out" was refused for a list of two whose second element has
\* the flag set to False: the directory d and the files are not there.
C15_Witness ==
    /\ outcome.op = "export" /\ outcome.done /\ outcome.raised
    /\ outcome.exc.type = "TXTExportError"
    /\ outcome.args.call.output_path = s_d_out
    /\ Len(outcome.args.items) = 2
    /\ Offending(outcome.args.items) = 2
    /\ outcome.args.items[2].cls = "PayloadTemplate"
    /\ files = NoFiles

\* The paths exports are asked to write.
Destinations ==
    {s_out, s_d_out}

\* C16, in every state: a destination path that exists holds a complete text.
DestinationsComplete ==
    \A p \in DOMAIN files.file \cap Destinations : files.file[p].written = "all"

\* C16, over every step of the program, failures and interruption included: a
\* destination is left as it is (absent, or with its previous content) or
\* holds the complete new content afterwards.
DestinationKeptOrReplaced ==
    write # NoWrite =>
        \A p \in Destinations :
            \/ p \notin DOMAIN files.file /\ p \notin DOMAIN files'.file
            \/ p \in DOMAIN files.file /\ p \in DOMAIN files'.file
                /\ files'.file[p] = files.file[p]
            \/ p = write.path /\ p \in DOMAIN files'.file
                /\ files'.file[p] = FileContent(write.content, "all")

\* C16: the atomic write never exposes a partial destination file: at every
\* step (create the temporary file, write, close, rename), whether it succeeds,
\* fails or the process is interrupted there, the destination does not exist,
\* holds its complete previous content, or holds the complete new content.
C16_DestinationNeverPartial ==
    /\ [](DestinationsComplete)
    /\ [][DestinationKeptOrReplaced]_vars

\* A direct export is about to close its temporary file, which holds part of
\* the new text, while the destination still holds the complete document that
\* an earlier run wrote there.
C16_Witness ==
    /\ write # NoWrite
    /\ write.pc = "close"
    /\ write.op = "export"
    /\ files.file[write.tmp_path].written = "prefix"
    /\ write.path \in DOMAIN files.file
    /\ files.file[write.path].written = "all"
    /\ files.file[write.path].data # write.content

\* C17: once an export has returned or raised, the temporary file is gone
\* (renamed onto the destination, or removed) and no descriptor is open.
C17_NoTempNoDescriptorAfterExport ==
    /\ write = NoWrite
    /\ outcome.op \in {"export", "run"}
    /\ outcome.done
    => /\ files.open = {}
       /\ DOMAIN files.file \subseteq Destinations

(***************************************************************************)
(* Claims on the exported document                                         *)
(***************************************************************************)

\* The records of an exported document, in the order written.
RecordsOf(doc) ==
    IF "payloads" \in DOMAIN doc THEN doc.payloads ELSE doc.entries

\* C18: both exporters write the records in non-decreasing order of (module,
\* lower-cased title), and the order written is the same for every ordering of
\* the same input records.
C18_ExportOrderIndependentOfInput ==
    outcome.op = "export" /\ outcome.done /\ ~outcome.raised =>
        LET call == outcome.args.call
            items == outcome.args.items
            written == RecordsOf(files.file[call.output_path].data)
        IN  /\ \A k \in 1..(Len(written) - 1) : ~SortKeyLess(written[k + 1], written[k])
            /\ \A f \in Permutations(1..Len(items)) :
                RecordsOf(export_document(call.export_format,
                                          [k \in 1..Len(items) |-> items[f[k]]],
                                          call.meta, heap).value) = written

\* The export arguments of this run ask for a format without a usable request:
\* no output_path, or a format other than json and txt.
BadExportRequest(a) ==
    /\ Truthy(a.export_format)
    /\ ~Truthy(a.output_path) \/ a.export_format \notin {s_json, s_txt}

\* C19, over the export step of run: with such a request the step raises
\* PipelineError, enters no exporter and leaves the files as they are.
C19_Step ==
    run # Idle /\ run.pc = "export" /\ BadExportRequest(run.args) =>
        /\ run' = Idle
        /\ outcome'.op = "run" /\ outcome'.done /\ outcome'.raised
        /\ outcome'.exc.type = "PipelineError"
        /\ write' = NoWrite
        /\ files' = files

\* C19, over the whole run: such a run ends in PipelineError and no file exists
\* afterwards.
C19_Outcome ==
    outcome.op = "run" /\ outcome.done /\ BadExportRequest(outcome.args) =>
        /\ outcome.raised
        /\ outcome.exc.type = "PipelineError"
        /\ files = NoFiles

\* C19: run with an export_format but without an output_path raises
\* PipelineError, and so does run with an export_format other than json or txt;
\* in both cases no exporter is called and no file is created or modified.
C19_BadExportRequestRefused ==
    /\ [](C19_Outcome)
    /\ [][C19_Step]_vars

\* A run whose generation succeeded was refused at its export step for the
\* format "xml", and there is no file.
C19_Witness ==
    /\ outcome.op = "run" /\ outcome.done /\ outcome.raised
    /\ outcome.args.export_format = <<"x","m","l">>
    /\ outcome.exc.msg = "Unsupported export format '{export_format}'."
    /\ outcome.invoked # <<>>
    /\ files = NoFiles
    /\ write = NoWrite

\* What run(**a) without its export arguments returns, by value.
RunWithoutExport(a) ==
    LET g == pipeline_generate(registry, a.module, a.db_type, a.os_type, a.context, <<>>)
        e == IF Truthy(a.encoding)
             THEN apply_encoding_to_all(g.res.value, a.encoding, g.heap)
             ELSE [res |-> g.res, heap |-> g.heap]
        o == IF Truthy(a.obfuscation)
             THEN apply_obfuscation_to_all(e.res.value, a.obfuscation, e.heap)
             ELSE e
    IN  [k \in 1..Len(o.res.value) |-> View(o.res.value[k], o.heap)]

\* C20: after a successful run with export_format="json" the file at
\* output_path holds a complete document whose count and whose number of
\* payload entries both equal the number of records returned, and the records
\* returned are, in order and content, those of the same run without export.
C20_JsonCountAndReturnedRecords ==
    /\ outcome.op = "run" /\ outcome.done /\ ~outcome.raised
    /\ outcome.args.export_format = s_json
    => /\ outcome.args.output_path \in DOMAIN files.file
       /\ LET f == files.file[outcome.args.output_path]
          IN  /\ f.written = "all"
              /\ f.data.count = Len(held)
              /\ Len(f.data.payloads) = Len(held)
       /\ [k \in 1..Len(held) |-> View(held[k], heap)] = RunWithoutExport(outcome.args)

\* A run of the caller's module with url encoding and a json export returned two
\* encoded records, and the document written counts two.
C20_Witness ==
    /\ outcome.op = "run" /\ outcome.done /\ ~outcome.raised
    /\ outcome.args.export_format = s_json
    /\ outcome.args.encoding = s_url
    /\ Len(held) = 2
    /\ held[1].payload = url_encode(s_word_template)
    /\ s_out \in DOMAIN files.file
    /\ files.file[s_out].data.count = 2
(***************************************************************************)
(* Claims on the meta mapping of export_json                               *)
(***************************************************************************)

\* The call o is export_json with a non-empty meta and a list it accepts.
MetaCall(o) ==
    /\ o.op = "export"
    /\ o.args.call.export_format = s_json
    /\ o.args.call.meta # NoMeta
    /\ Offending(o.args.items) = 0

ReservedMeta(meta) ==
    DOMAIN meta \cap RESERVED_META_KEYS # {}

SerialisableMeta(meta) ==
    \A k \in DOMAIN meta : meta[k] \notin UNSERIALISABLE

\* The four reserved top-level keys of the document written by the call o hold
\* what the exporter computed from the list.
ReservedKeysComputed(o) ==
    LET doc == files.file[o.args.call.output_path].data
        validated == SortedByKey(o.args.items)
    IN  /\ doc.schema = "proteus.payloads.v1"
        /\ doc.exported_at = "_now_iso()"
        /\ doc.count = Len(o.args.items)
        /\ doc.payloads = [k \in 1..Len(validated) |-> to_json_safe(validated[k], heap)]

\* The call step of an export_json that raises before the write: it raises
\* JSONExportError and nothing is written.
RefusedBeforeWrite ==
    /\ outcome'.done /\ outcome'.raised
    /\ outcome'.exc.type = "JSONExportError"
    /\ write' = NoWrite
    /\ files' = files

\* C21 as stated, over the call step: a meta with a reserved key is refused
\* before the write.
C21_ReservedStep ==
    ExportCall /\ MetaCall(outcome') /\ ReservedMeta(outcome'.args.call.meta)
        => RefusedBeforeWrite

\* C21 as stated, over the finished call: with any other meta the call fails
\* only when the write fails, and the document written carries the supplied
\* mapping as its meta and the computed reserved keys.
C21_OtherMetaKept ==
    MetaCall(outcome) /\ outcome.done /\ ~ReservedMeta(outcome.args.call.meta) =>
        IF outcome.raised THEN outcome.exc.cause.type = "OSError"
        ELSE /\ files.file[outcome.args.call.output_path].data.meta = outcome.args.call.meta
             /\ ReservedKeysComputed(outcome)

C21_RefusedStep ==
    /\ ExportCall /\ MetaCall(outcome')
    /\ ReservedMeta(outcome'.args.call.meta) \/ ~SerialisableMeta(outcome'.args.call.meta)
    => /\ RefusedBeforeWrite
       /\ ~ReservedMeta(outcome'.args.call.meta) => outcome'.exc.cause.type = "TypeError"

\* With a meta of serialisable values and no reserved key the call fails only
\* when the write fails, and the document written carries the mapping as
\* json.dumps writes it and the computed reserved keys.
C21_SerialisableMetaWritten ==
    /\ MetaCall(outcome) /\ outcome.done
    /\ ~ReservedMeta(outcome.args.call.meta) /\ SerialisableMeta(outcome.args.call.meta)
    => IF outcome.raised THEN outcome.exc.cause.type = "OSError"
       ELSE /\ files.file[outcome.args.call.output_path].data.meta
                = [k \in DOMAIN outcome.args.call.meta |-> json_value(outcome.args.call.meta[k])]
            /\ ReservedKeysComputed(outcome)

ModeOf(o) ==
    Lower(Strip(o.args.mode))

\* C22: for every supported mode (comments, whitespace, mixed),
\* obfuscate_payload succeeds exactly when the input text contains a bracketed
\* <<...>> marker or the whole word TEMPLATE (case-insensitive), and raises
\* ObfuscationError for every text without such a marker.
C22_SucceedsIffMarked ==
    outcome.op = "obfuscate_payload" /\ ModeOf(outcome) \in OBFUSCATION_MODES =>
        /\ ~outcome.raised <=> TEMPLATE_MARKER_RE_search(outcome.args.payload)
        /\ outcome.raised => outcome.exc.type = "ObfuscationError"

(***************************************************************************)
(* Claims on repeated generation                                           *)
(***************************************************************************)

\* The fields of rec two generations are compared in, the lists by value.
Compared(rec, h) ==
    [module |-> rec.module, title |-> rec.title, description |-> rec.description,
     payload |-> rec.payload, context |-> rec.context, db_type |-> rec.db_type,
     os_type |-> rec.os_type, tags |-> h[rec.tags], risk_level |-> rec.risk_level,
     defensive_notes |-> rec.defensive_notes,
     encoding_applied |-> h[rec.encoding_applied],
     obfuscation_applied |-> h[rec.obfuscation_applied]]

\* What the same call returned before the caller held anything.
EarlierCall(a) ==
    registry_generate(registry, a.module, a.db_type, a.os_type, a.context, <<>>)

AloneResult(a) ==
    LET g == pipeline_generate(registry, a.module, a.db_type, a.os_type, a.context, <<>>)
        e == IF ~g.res.raised /\ Truthy(a.encoding)
             THEN apply_encoding_to_all(g.res.value, a.encoding, g.heap)
             ELSE [res |-> g.res, heap |-> g.heap]
        o == IF ~e.res.raised /\ Truthy(a.obfuscation)
             THEN apply_obfuscation_to_all(e.res.value, a.obfuscation, e.heap)
             ELSE e
    IN  IF o.res.raised THEN [raised |-> TRUE, exc |-> o.res.exc, value |-> <<>>]
        ELSE [raised |-> FALSE, exc |-> NoExc,
              value |-> [k \in 1..Len(o.res.value) |-> View(o.res.value[k], o.heap)]]

\* The thread t has ended as run(**t.args) can end alone: with the exception or
\* the records of AloneResult, or, with an export, with the exporter's error
\* raised from a failure of one of its own operating-system calls.
EndsAsAlone(t) ==
    \E alone \in {AloneResult(t.args)} :
        IF alone.raised THEN t.raised /\ t.exc = alone.exc
        ELSE IF t.raised
            THEN /\ Truthy(t.args.export_format)
                 /\ t.exc.type = ErrorClassOf(t.args.export_format)
                 /\ t.exc.cause = OSError
            ELSE [k \in 1..Len(t.items) |-> View(t.items[k], heap)] = alone.value

\* C24: for any interleaving of two run invocations in one process, each
\* invocation returns exactly what it returns when executed alone, and no
\* history list is reachable from the results of both.
C24_InterleavedRunsIndependent ==
    /\ \A i \in DOMAIN conc : conc[i].pc = "done" => EndsAsAlone(conc[i])
    /\ \A i \in DOMAIN conc, j \in DOMAIN conc :
        i # j /\ conc[i].pc = "done" /\ conc[j].pc = "done"
            => Refs(conc[i].items) \cap Refs(conc[j].items) = {}

\* The thread t is inside _atomic_write_text, between mkstemp and the end of
\* the finally block, and has its temporary file.
HasTemp(t) ==
    /\ t.pc # "done" /\ t.write # NoWrite
    /\ t.write.pc \notin {"mkdir", "mkstemp", "exit"}
    /\ t.write.tmp_path # None

\* The thread t has ended a run that exported to path without error.
Exported(t, path) ==
    /\ t.pc = "done" /\ ~t.raised
    /\ Truthy(t.args.export_format) /\ t.args.output_path = path

\* The document the ended thread t wrote.
DocumentOf(t) ==
    export_document(t.args.export_format, t.items, t.args.meta, heap).value

C25_AssignmentCannotUnsetFlag ==
    /\ \A i \in 1..Len(held) : held[i].disabled_by_default = "True"
    /\ outcome.op = "assign" /\ outcome.args.value # "True" => outcome.raised

(***************************************************************************)
(* C26                                                                     *)
(***************************************************************************)

\* The chosen module's own selector was not given on the command line.
MissingSelector(a) ==
    \/ a.module = s_xss /\ a.context = None
    \/ a.module = s_sqli /\ a.db = None
    \/ a.module = s_cmd /\ a.os = None

\* Some --meta pair has no "=" or nothing but blanks before its first "=".
MalformedMeta(a) ==
    /\ a.meta # None
    /\ \E i \in 1..Len(a.meta) :
        \A k \in 1..Len(a.meta[i]) :
            a.meta[i][k] = "=" =>
                \A j \in 1..(k - 1) : IsSpace(a.meta[i][j]) \/ a.meta[i][j] = "="

\* The path main passes to the pipeline for the export it was asked for.
OutputOf(a) ==
    IF a.output = None THEN s_samples \o <<"/">> \o s_sample_payloads \o a.export
    ELSE a.output

\* What main returned in the cases the two statements below agree on: 0 exactly
\* when the run it started returned, and then with the export it was asked for
\* complete at its destination; 130 exactly on KeyboardInterrupt; a missing
\* selector is refused before the pipeline is run.
C26_CodesAgreed ==
    outcome.op = "main" =>
        /\ outcome.code \in {0, 1, 2, 130}
        /\ outcome.code = 0 <=> outcome.ran /\ outcome.error = NoExc
        /\ outcome.code = 0 /\ outcome.args.export # None =>
            /\ OutputOf(outcome.args) \in DOMAIN files.file
            /\ files.file[OutputOf(outcome.args)].written = "all"
        /\ outcome.code = 130 <=> outcome.ran /\ outcome.error.type = "KeyboardInterrupt"
        /\ MissingSelector(outcome.args) => ~outcome.ran /\ outcome.code = 1

RequiredSelectors(spec) ==
    (IF spec.requires_db THEN {"db_type"} ELSE {})
    \cup (IF spec.requires_os THEN {"os_type"} ELSE {})
    \cup (IF spec.name = s_xss THEN {"context"} ELSE {})

\* C27: ModuleRegistry.generate calls the generator once with exactly one
\* selector (db_type when the spec requires a database, os_type when it requires
\* an OS, context otherwise) holding the caller's value; every selector the spec
\* marks as required is passed; the records a built-in module returns carry no
\* selector of another module.
C27_OneSelectorEveryRequiredPassed ==
    (outcome.op = "registry.generate" /\ outcome.invoked # <<>>) =>
        LET spec == registry[outcome.args.module]
            call == outcome.invoked[1]
        IN  /\ Len(outcome.invoked) = 1
            /\ call.kw = (IF spec.requires_db THEN "db_type"
                          ELSE IF spec.requires_os THEN "os_type" ELSE "context")
            /\ call.value = (IF call.kw = "db_type" THEN outcome.args.db_type
                             ELSE IF call.kw = "os_type" THEN outcome.args.os_type
                             ELSE outcome.args.context)
            /\ \A kw \in RequiredSelectors(spec) : kw = call.kw
            /\ spec.generator \in BUILTIN_GENERATORS =>
                \A i \in 1..Len(held) :
                    /\ call.kw # "db_type" => held[i].db_type = None
                    /\ call.kw # "os_type" => held[i].os_type = None
                    /\ call.kw # "context" => held[i].context = None

(***************************************************************************)
(* C28                                                                     *)
(***************************************************************************)

\* C28: a run of a built-in module with a valid selector, a supported encoding
\* and a supported obfuscation (and no export) ends without error, and every
\* record it returns has the encoding history [encoding] and the obfuscation
\* history [obfuscation].
C28_EncodedThenObfuscatedRunSucceeds ==
    (/\ outcome.op = "run" /\ outcome.done
     /\ outcome.invoked # <<>>
     /\ outcome.invoked[1].generator \in BUILTIN_GENERATORS
     /\ outcome.args.encoding \in {s_url, s_base64, s_hex}
     /\ outcome.args.obfuscation \in {s_comments, s_whitespace, s_mixed}
     /\ ~Truthy(outcome.args.export_format))
    => /\ ~outcome.raised
       /\ held # <<>>
       /\ \A k \in 1..Len(held) :
           /\ heap[held[k].encoding_applied] = <<outcome.args.encoding>>
           /\ heap[held[k].obfuscation_applied] = <<outcome.args.obfuscation>>

(***************************************************************************)
(* C29                                                                     *)
(***************************************************************************)

\* This step belongs to a direct call of an exporter: the call itself or a step
\* of its _atomic_write_text.
DirectExportStep ==
    /\ run = Idle /\ outcome'.op = "export"
    /\ ExportCall \/ write # NoWrite

\* C29, over one step of a direct export: the list the caller handed over keeps
\* its order, length and elements, and no list of a record changes.
C29_ExportStep ==
    DirectExportStep => held' = held /\ heap' = heap

\* C29, for run: the records a successful run returns are, in order and by
\* value, those of the same run without its export arguments.
C29_RunReturnsGeneratorOrder ==
    (outcome.op = "run" /\ outcome.done /\ ~outcome.raised)
        => [k \in 1..Len(held) |-> View(held[k], heap)] = RunWithoutExport(outcome.args)

\* C29: export leaves the caller's record collection untouched (the exporters
\* validate and sort a list of their own), and run returns its records in
\* generator order whether or not an export took place.
C29_ExportLeavesCallerListUntouched ==
    []C29_RunReturnsGeneratorOrder /\ [][C29_ExportStep]_vars

\* A direct export of two records held in the reverse of the export order has
\* ended without error: the file has them in export order, the caller's list
\* has them as before.
C29_Witness ==
    /\ outcome.op = "export" /\ outcome.done /\ ~outcome.raised
    /\ Len(held) = 2
    /\ SortKeyLess(held[2], held[1])
    /\ outcome.args.items = held
    /\ outcome.args.call.output_path \in DOMAIN files.file
    /\ LET written == RecordsOf(files.file[outcome.args.call.output_path].data)
       IN  /\ Len(written) = 2
           /\ written[1].title = held[2].title
           /\ written[2].title = held[1].title


=============================================================================
